---- MODULE Spec2Model ----
(***************************************************************************)
(* Model of the submission-to-report pipeline of the bank statement        *)
(* analysis server (index.js): POST /api/analysis, its background          *)
(* classification task, the report store and the report readers.           *)
(***************************************************************************)
EXTENDS Integers, Sequences, FiniteSets, TLC

\* ------------------------------------------------------------------------
\* Bounds of the model
\* ------------------------------------------------------------------------
MaxTx == 2
MaxEntries == 2
MaxFiles == 1
MaxBatch == 2
MaxSummaryTx == 3
MaxHistory == 3

Sessions == {"s1"}
Slots == {"r1", "r2"}
Observers == {"o1"}

\* ------------------------------------------------------------------------
\* JavaScript values.  Nullable values are tagged tuples: NULL stands for
\* null/undefined, Str(x) for a string (Str("") is the empty string),
\* Num(n) for a number.
\* ------------------------------------------------------------------------
NULL == <<"null">>
Str(x) == <<"s", x>>
Num(n) == <<"n", n>>
EmptyString == Str("")

\* a || null
OrNull(v) == IF v = NULL \/ v = EmptyString THEN NULL ELSE v
\* COALESCE(excluded, existing)
Coalesce(a, b) == IF a # NULL THEN a ELSE b

\* Identifiers of transactions.  A generated id is the string
\* `${sessionId}_${index + 1}`; an extractor may supply its own id, as a
\* string or as a number.  String(id) keeps the digits and drops the type.
StrId(v) == [t |-> "str", v |-> v]
NumId(v) == [t |-> "num", v |-> v]
NoId == [t |-> "none", v |-> <<>>]
StringOf(id) == [t |-> "str", v |-> id.v]

\* ------------------------------------------------------------------------
\* Dates.  A Date is the number of its getTime(), counted here in hours of
\* a calendar whose months all have 31 days; NoDate is the null that
\* extractTransactionDate returns for a transaction without a date.
\* ------------------------------------------------------------------------
NoDate == 0
\* new Date(Date.UTC(year, month, day, hour)), month from 0
DateOf(year, month, day, hour) ==
  ((year * 12 + month) * 31 + (day - 1)) * 24 + hour
getUTCFullYear(date) == date \div (12 * 31 * 24)
getUTCMonth(date) == (date \div (31 * 24)) % 12
getUTCDate(date) == ((date \div 24) % 31) + 1
getUTCHours(date) == date % 24

\* the clock of the server when a report is built, index.js:1284
currentDate == DateOf(2025, 5, 15, 12)

\* ------------------------------------------------------------------------
\* Numbers.  A JavaScript number is a binary floating point number: a sum
\* is rounded to the nearest number that the significand can hold, a tie
\* to the even one.  The significand is shortened to SignificandBits bits.
\* ------------------------------------------------------------------------
SignificandBits == 3

RECURSIVE Pow2(_)
Pow2(n) == IF n = 0 THEN 1 ELSE 2 * Pow2(n - 1)

RECURSIVE ExponentOf(_, _)
ExponentOf(n, e) ==
  IF n < Pow2(SignificandBits + e) THEN e ELSE ExponentOf(n, e + 1)

RoundNumber(n) ==
  LET ulp == Pow2(ExponentOf(n, 0))
      q == n \div ulp
      r == n % ulp
      up == 2 * r > ulp \/ (2 * r = ulp /\ (q % 2) = 1)
  IN (IF up THEN q + 1 ELSE q) * ulp

\* a + b
Plus(a, b) == RoundNumber(a + b)

\* ------------------------------------------------------------------------
\* Texts.  A purpose or sender text is modelled by the set of keyword
\* classes of which it contains a marker; the empty set is the empty
\* string, "other" is text without any marker.
\* ------------------------------------------------------------------------
Markers == {"terminal", "non_revenue", "revenue", "topup", "other"}

\* The terminal-deposit and non-revenue keyword lists hold phrases of
\* several words ('cash in', 'возврат средств').  A text that ends with the
\* first words of such a phrase carries the marker of its head, a text that
\* starts with its last words carries the marker of its tail.
PhraseHead(keywordClass) ==
  IF keywordClass = "terminal" THEN "terminal_head" ELSE "non_revenue_head"
PhraseTail(keywordClass) ==
  IF keywordClass = "terminal" THEN "terminal_tail" ELSE "non_revenue_tail"
PhraseClasses == {"terminal", "non_revenue"}

\* index.js:1151  `${purpose} ${sender}`: the markers of both texts, and
\* the phrases completed across the joint
Joined(purpose, sender) ==
  purpose \cup sender
    \cup {k \in PhraseClasses : PhraseHead(k) \in purpose /\ PhraseTail(k) \in sender}

\* index.js:1157  contains(keywords, text)
contains(keywordClass, text) == keywordClass \in text

\* index.js:1148-1192
classifyTransactionHeuristically(transaction) ==
  LET purpose == transaction.purpose
      sender == transaction.sender
      combinedText == Joined(purpose, sender)
  IN IF purpose = {} /\ sender = {} THEN "ambiguous"
     ELSE IF contains("terminal", combinedText) THEN "non_revenue"
     ELSE IF contains("non_revenue", combinedText) THEN "non_revenue"
     ELSE IF contains("revenue", purpose) THEN "revenue"
     ELSE IF contains("topup", purpose) THEN "ambiguous"
     ELSE "ambiguous"

\* index.js:1194-1206
attachInternalTransactionIds(transactions, sessionId) ==
  [index \in DOMAIN transactions |->
     LET transaction == transactions[index]
         existingId == transaction.id
         generatedId == IF existingId # NoId THEN existingId
                        ELSE StrId(<<sessionId, index>>)
     IN [id |-> transaction.id,
         date |-> transaction.date,
         amount |-> transaction.amount,
         purpose |-> transaction.purpose,
         sender |-> transaction.sender,
         ikap_tx_id |-> generatedId]]

\* The record a transaction becomes once it carries a classification.
Classified(transaction, source, possibleNonRevenue) ==
  [id |-> transaction.id,
   date |-> transaction.date,
   amount |-> transaction.amount,
   purpose |-> transaction.purpose,
   sender |-> transaction.sender,
   ikap_tx_id |-> transaction.ikap_tx_id,
   ikap_classification_source |-> source,
   ikap_possible_non_revenue |-> possibleNonRevenue]

\* seq with Map applied to every element
MapSeq(seq, Map(_)) == [i \in 1..Len(seq) |-> Map(seq[i])]

\* a split that sends only the ambiguous transactions to review and drops
\* the others
splitTransactionsByConfidence_dropNonRevenue(transactions) ==
  LET isRevenue(t) == classifyTransactionHeuristically(t) = "revenue"
      isAmbiguous(t) == classifyTransactionHeuristically(t) = "ambiguous"
      asRevenue(t) == Classified(t, "heuristic", FALSE)
      asReview(t) == Classified(t, "agent_required", FALSE)
  IN [obviousRevenue |-> MapSeq(SelectSeq(transactions, isRevenue), asRevenue),
      needsReview |-> MapSeq(SelectSeq(transactions, isAmbiguous), asReview)]

\* index.js:1208-1231
splitTransactionsByConfidence(transactions) ==
  LET isRevenue(t) == classifyTransactionHeuristically(t) = "revenue"
      notRevenue(t) == ~isRevenue(t)
      asRevenue(t) == Classified(t, "heuristic", FALSE)
      asReview(t) ==
        Classified(t, "agent_required",
                   classifyTransactionHeuristically(t) = "non_revenue")
  IN [obviousRevenue |-> MapSeq(SelectSeq(transactions, isRevenue), asRevenue),
      needsReview |-> MapSeq(SelectSeq(transactions, notRevenue), asReview)]

\* ------------------------------------------------------------------------
\* The classifier's answer and the fold of its decisions
\* ------------------------------------------------------------------------

\* index.js:1257-1264.  The final output text of the run is empty, is not
\* JSON ("garbage"), is a JSON array of entries, a JSON object with a
\* transactions array, or a JSON object without one.
parseClassifierResponse(text) ==
  IF text.kind = "empty" THEN <<>>
  ELSE IF text.kind = "garbage" THEN <<>>
  ELSE IF text.kind = "array" THEN text.entries
  ELSE IF text.kind = "object" THEN text.entries
  ELSE <<>>

\* index.js:2115-2121  entry.is_revenue ?? ... ?? (entry.label === 'revenue')
\* for an entry that carries none of the legacy spellings
EntryIsRevenue(entry) ==
  IF entry.is_revenue # "absent" THEN entry.is_revenue = "true" ELSE FALSE

RECURSIVE BuildDecisionsMap(_, _)
\* index.js:2111-2124  a later entry for a key replaces an earlier one
BuildDecisionsMap(entries, map) ==
  IF entries = <<>> THEN map
  ELSE LET entry == Head(entries)
           key == StringOf(entry.id)
       IN IF entry.id = NoId
          THEN BuildDecisionsMap(Tail(entries), map)
          ELSE BuildDecisionsMap(
                 Tail(entries),
                 [k \in DOMAIN map \cup {key} |->
                    IF k = key THEN EntryIsRevenue(entry) ELSE map[k]])

EmptyMap == [k \in {} |-> FALSE]

\* index.js:2130-2132  decisionsMap.get(String(id)) || decisionsMap.get(id)
HasDecision(decisionsMap, transaction) ==
  \/ StringOf(transaction.ikap_tx_id) \in DOMAIN decisionsMap
  \/ transaction.ikap_tx_id \in DOMAIN decisionsMap

DecisionFor(decisionsMap, transaction) ==
  IF StringOf(transaction.ikap_tx_id) \in DOMAIN decisionsMap
  THEN decisionsMap[StringOf(transaction.ikap_tx_id)]
  ELSE decisionsMap[transaction.ikap_tx_id]

\* a fold that takes a transaction without a decision for revenue
Enriched_defaultRevenue(decisionsMap, transaction) ==
  LET decided == HasDecision(decisionsMap, transaction)
  IN [tx |-> Classified(transaction,
                        IF decided THEN "agent" ELSE "agent_missing",
                        transaction.ikap_possible_non_revenue),
      isRevenue |-> IF decided THEN DecisionFor(decisionsMap, transaction)
                    ELSE TRUE]

\* index.js:2129-2142  one needs-review transaction with its decision
Enriched(decisionsMap, transaction) ==
  LET decided == HasDecision(decisionsMap, transaction)
  IN [tx |-> Classified(transaction,
                        IF decided THEN "agent" ELSE "agent_missing",
                        transaction.ikap_possible_non_revenue),
      isRevenue |-> IF decided THEN DecisionFor(decisionsMap, transaction)
                    ELSE FALSE]

\* index.js:2126-2149
reviewedRevenue(decisionsMap, needsReview) ==
  LET isRev(t) == Enriched(decisionsMap, t).isRevenue
      enrich(t) == Enriched(decisionsMap, t).tx
  IN MapSeq(SelectSeq(needsReview, isRev), enrich)

reviewedNonRevenue(decisionsMap, needsReview) ==
  LET notRev(t) == ~Enriched(decisionsMap, t).isRevenue
      enrich(t) == Enriched(decisionsMap, t).tx
  IN MapSeq(SelectSeq(needsReview, notRev), enrich)

\* index.js:2153-2160  comparator of the sort: dated before undated,
\* older before newer
DateBefore(a, b) ==
  IF a.date = NoDate THEN FALSE
  ELSE IF b.date = NoDate THEN TRUE
  ELSE a.date < b.date

RECURSIVE InsertByDate(_, _)
InsertByDate(sorted, t) ==
  IF sorted = <<>> THEN <<t>>
  ELSE IF DateBefore(t, Head(sorted)) THEN <<t>> \o sorted
  ELSE <<Head(sorted)>> \o InsertByDate(Tail(sorted), t)

RECURSIVE SortByDate(_)
\* Array.prototype.sort with the comparator above (stable)
SortByDate(seq) ==
  IF seq = <<>> THEN <<>>
  ELSE InsertByDate(SortByDate(SubSeq(seq, 1, Len(seq) - 1)), seq[Len(seq)])

\* index.js:2196-2197
openaiStatusOf(needsReview, decisionsMap) ==
  IF Len(needsReview) = 0 THEN "skipped"
  ELSE IF Cardinality(DOMAIN decisionsMap) > 0 THEN "completed"
  ELSE "partial"

Max(a, b) == IF a > b THEN a ELSE b

\* ------------------------------------------------------------------------
\* The structured summary, index.js:1266-1465.  The amount of a
\* transaction is parseAmountNumber(extractAmountRaw(transaction)), 0 when
\* there is none; its date is extractTransactionDate(transaction).
\* ------------------------------------------------------------------------
\* transactions.reduce((sum, transaction) => sum + (amount || 0), 0)
RECURSIVE SumAmounts(_)
SumAmounts(transactions) ==
  IF transactions = <<>> THEN 0
  ELSE Plus(SumAmounts(SubSeq(transactions, 1, Len(transactions) - 1)),
            transactions[Len(transactions)].amount)

\* entries.reduce((sum, entry) => sum + entry.value, 0)
RECURSIVE SumValues(_)
SumValues(entries) ==
  IF entries = <<>> THEN 0
  ELSE Plus(SumValues(SubSeq(entries, 1, Len(entries) - 1)),
            entries[Len(entries)].value)

\* the numbers of a set in ascending order
RECURSIVE Ascending(_)
Ascending(S) ==
  IF S = {} THEN <<>>
  ELSE LET least == CHOOSE x \in S : \A y \in S : x <= y
       IN <<least>> \o Ascending(S \ {least})

\* index.js:1284-1286  three days after the clock
maxAllowedDate == currentDate + 3 * 24

\* index.js:1269-1299  the transaction is grouped: it has an amount and a
\* date, and the date is not later than maxAllowedDate
Grouped(transaction) ==
  /\ transaction.amount # 0
  /\ transaction.date # NoDate
  /\ ~(transaction.date > maxAllowedDate)

\* index.js:1266-1324
aggregateByYearMonth(transactions) ==
  LET grouped == SelectSeq(transactions, Grouped)
      years == {getUTCFullYear(grouped[i].date) : i \in 1..Len(grouped)}
      yearEntry(year) ==
        LET inYear(t) == getUTCFullYear(t.date) = year
            ofYear == SelectSeq(grouped, inYear)
            months == {getUTCMonth(ofYear[i].date) : i \in 1..Len(ofYear)}
            monthEntry(month) ==
              LET inMonth(t) == getUTCMonth(t.date) = month
              IN [month |-> month,
                  value |-> SumAmounts(SelectSeq(ofYear, inMonth))]
            sortedMonths == Ascending(months)
        IN [year |-> year,
            value |-> SumAmounts(ofYear),
            months |-> [k \in 1..Len(sortedMonths) |->
                          monthEntry(sortedMonths[k])]]
      sortedYears == Ascending(years)
  IN [k \in 1..Len(sortedYears) |-> yearEntry(sortedYears[k])]

\* index.js:1341-1344  the first day of the month eleven months before
\* the month of the reference date, at the reference date's time of day
windowStartOf(referenceDate) ==
  LET months == getUTCFullYear(referenceDate) * 12
                  + getUTCMonth(referenceDate) - 11
  IN DateOf(months \div 12, months % 12, 1, getUTCHours(referenceDate))

\* index.js:1326-1352
computeTrailing12Months(transactions) ==
  LET isDated(t) == t.amount # 0 /\ t.date # NoDate
      dated == SelectSeq(transactions, isDated)
  IN IF Len(dated) = 0 THEN [total |-> 0, referenceDate |-> NoDate]
     ELSE LET referenceDate ==
                CHOOSE d \in {dated[i].date : i \in 1..Len(dated)} :
                  \A i \in 1..Len(dated) : dated[i].date <= d
              windowStart == windowStartOf(referenceDate)
              inWindow(t) == t.date >= windowStart /\ t.date <= referenceDate
          IN [total |-> SumAmounts(SelectSeq(dated, inWindow)),
              referenceDate |-> referenceDate]

\* index.js:1387-1465
buildStructuredSummary(revenueTransactions, nonRevenueTransactions, stats) ==
  LET revenueSummary == aggregateByYearMonth(revenueTransactions)
      nonRevenueSummary == aggregateByYearMonth(nonRevenueTransactions)
      totalRevenue == SumAmounts(revenueTransactions)
      totalNonRevenue == SumAmounts(nonRevenueTransactions)
      trailing == computeTrailing12Months(revenueTransactions)
  IN [totals |-> [revenue |-> [value |-> totalRevenue],
                  nonRevenue |-> [value |-> totalNonRevenue]],
      revenue |-> [totalValue |-> totalRevenue, years |-> revenueSummary],
      nonRevenue |-> [totalValue |-> totalNonRevenue,
                      years |-> nonRevenueSummary],
      trailing12MonthsRevenue |->
        [value |-> trailing.total,
         referencePeriodEndsAt |-> trailing.referenceDate],
      stats |-> stats]

\* ------------------------------------------------------------------------
\* The report store
\* ------------------------------------------------------------------------
NoRow == [status |-> "absent"]

Payload(status, reportText, reportStructured, filesCount, filesData, completed, comment, openaiResponseId, openaiStatus) ==
  [status |-> status, reportText |-> reportText,
   reportStructured |-> reportStructured, filesCount |-> filesCount,
   filesData |-> filesData, completed |-> completed, comment |-> comment,
   openaiResponseId |-> openaiResponseId, openaiStatus |-> openaiStatus]

NoPayload == [status |-> "none"]

\* the values bound to the INSERT, index.js:1684-1695
InsertedRow(payload) ==
  [status |-> payload.status,
   report_text |-> OrNull(payload.reportText),
   report_structured |-> OrNull(payload.reportStructured),
   files_count |-> payload.filesCount,
   files_data |-> OrNull(payload.filesData),
   completed_at |-> OrNull(payload.completed),
   comment |-> payload.comment,
   openai_response_id |-> payload.openaiResponseId,
   openai_status |-> payload.openaiStatus]

\* a statement that keeps the stored completed_at when the new one is null
upsertReport_coalesceCompletedAt(row, payload) ==
  LET excluded == InsertedRow(payload)
  IN IF row = NoRow THEN excluded
     ELSE [status |-> excluded.status,
           report_text |-> excluded.report_text,
           report_structured |->
             Coalesce(excluded.report_structured, row.report_structured),
           files_count |-> excluded.files_count,
           files_data |-> excluded.files_data,
           completed_at |->
             Coalesce(excluded.completed_at, row.completed_at),
           comment |-> Coalesce(excluded.comment, row.comment),
           openai_response_id |->
             Coalesce(excluded.openai_response_id, row.openai_response_id),
           openai_status |->
             Coalesce(excluded.openai_status, row.openai_status)]

\* index.js:1656-1699  the row after a successful statement
upsertReport(row, payload) ==
  LET excluded == InsertedRow(payload)
  IN IF row = NoRow THEN excluded
     ELSE [status |-> excluded.status,
           report_text |-> excluded.report_text,
           report_structured |->
             Coalesce(excluded.report_structured, row.report_structured),
           files_count |-> excluded.files_count,
           files_data |-> excluded.files_data,
           completed_at |-> excluded.completed_at,
           comment |-> Coalesce(excluded.comment, row.comment),
           openai_response_id |->
             Coalesce(excluded.openai_response_id, row.openai_response_id),
           openai_status |->
             Coalesce(excluded.openai_status, row.openai_status)]

\* index.js:1981-1987  JSON.stringify of the files' name, size and mime
filesDataJson(filesCount) == <<"files", filesCount>>
\* new Date().toISOString()
Timestamp == Str("now")
\* the comment of a submission without a comment field: ''
NoComment == EmptyString

\* index.js:1990-1998
GeneratingPayload(filesCount) ==
  Payload("generating", NULL, NULL, Num(filesCount),
          filesDataJson(filesCount), NULL, NoComment, NULL, NULL)

\* index.js:2225-2235 and 2276-2285
FailedPayload(filesCount, message) ==
  Payload("failed", message, NULL, Num(filesCount),
          filesDataJson(filesCount), Timestamp, NoComment, NULL,
          Str("failed"))

\* index.js:2181-2209  the structured summary, its rendering and the final
\* payload of a run
CompletedPayload(filesCount, structuredSummary, lastResponseId, openaiStatus) ==
  Payload("completed", <<"text", structuredSummary.stats>>,
          <<"summary", structuredSummary.stats, structuredSummary>>,
          Num(filesCount), filesDataJson(filesCount), Timestamp, NoComment,
          OrNull(lastResponseId), Str(openaiStatus))

\* ------------------------------------------------------------------------
\* Inputs
\* ------------------------------------------------------------------------
Tx(id, date, amount, purpose, sender) ==
  [id |-> id, date |-> date, amount |-> amount, purpose |-> purpose,
   sender |-> sender]

\* extractor records: a payment for an invoice, a terminal self-deposit, a
\* refund of a payment, a top-up without context, a record without purpose
\* and sender that carries the extractor's own numeric id
TxRevenue == Tx(NoId, DateOf(2025, 2, 15, 14), 3, {"revenue"}, {})
TxTerminal == Tx(NoId, DateOf(2024, 3, 1, 9), 2, {"terminal", "topup"}, {"other"})
TxRefund == Tx(NoId, NoDate, 5, {"non_revenue", "revenue"}, {})
TxTopUp == Tx(NoId, DateOf(1999, 11, 20, 0), 1, {"topup"}, {"revenue"})
TxBlank == Tx(NumId(<<"ext", 7>>), NoDate, 0, {}, {})

TxPool == {TxRevenue, TxTerminal, TxRefund, TxTopUp, TxBlank}

SeqsUpTo(S, n) == UNION {[1..k -> S] : k \in 0..n}

AllTxLists == SeqsUpTo(TxPool, MaxTx)
FewTxLists == {<<TxRevenue>>, <<TxTopUp>>}
FewFileCounts == {0, 1}

EntryIds(sessionId) ==
  {StrId(<<sessionId, i>>) : i \in 1..MaxTx}
    \cup {StrId(<<"ext", 7>>), StrId(<<"zz", 0>>), NoId}

Entries(sessionId) ==
  [id : EntryIds(sessionId), is_revenue : {"true", "false", "absent"}]

NoEntriesText(kind) == [kind |-> kind, entries |-> <<>>]

AllTexts(sessionId) ==
  {NoEntriesText(k) : k \in {"empty", "garbage", "object_without_transactions"}}
    \cup [kind : {"array", "object"},
          entries : SeqsUpTo(Entries(sessionId), MaxEntries)]

FewTexts(sessionId) ==
  {NoEntriesText("garbage"),
   [kind |-> "object",
    entries |-> <<[id |-> StrId(<<sessionId, 1>>), is_revenue |-> "true"]>>]}

NoText == [kind |-> "none", entries |-> <<>>]
Raised == [kind |-> "raise", entries |-> <<>>]

\* ------------------------------------------------------------------------
\* The PDF converter, pdfConverter.js
\* ------------------------------------------------------------------------
\* What the extractor does with one PDF: it prints the JSON of the
\* transactions, it prints nothing but 'No credit rows found', it exits with
\* a code other than 0, it prints text that is no JSON, it cannot be
\* started; over HTTP it answers with the JSON, with 204 or with an error.
Converted(transactions) == [kind |-> "converted", transactions |-> transactions]
NoCreditRows == [kind |-> "no_credit_rows", transactions |-> <<>>]
Http204 == [kind |-> "http_204", transactions |-> <<>>]
FailureKinds == {"exit_code", "unparseable", "spawn_error", "http_error"}
Failure(kind) == [kind |-> kind, transactions |-> <<>>]

ResultEntry(filename, transactions, error) ==
  [source_file |-> filename, transactions |-> transactions, error |-> error]

Returned(entries) == [threw |-> FALSE, entries |-> entries, message |-> NULL]
Thrown(message) == [threw |-> TRUE, entries |-> <<>>, message |-> message]

\* pdfConverter.js:31-294  convertPdfToJson: the entries of one file, or
\* the error it throws
convertPdfToJson(file) ==
  CASE file.outcome.kind = "converted" ->
         Returned(<<ResultEntry(file.filename, file.outcome.transactions, NULL)>>)
    [] file.outcome.kind = "no_credit_rows" ->
         Returned(<<ResultEntry(file.filename, <<>>, Str("no credit rows"))>>)
    [] file.outcome.kind = "http_204" -> Returned(<<>>)
    [] OTHER -> Thrown(Str(file.outcome.kind))

\* pdfConverter.js:297-324  convertPdfsToJson, the files from index on
RECURSIVE ConvertFrom(_, _, _)
ConvertFrom(files, index, results) ==
  IF index > Len(files) THEN Returned(results)
  ELSE LET file == files[index]
           result == convertPdfToJson(file)
       IN IF ~result.threw
          THEN ConvertFrom(files, index + 1, results \o result.entries)
          ELSE ConvertFrom(files, index + 1,
                 Append(results,
                        ResultEntry(file.filename, <<>>, result.message)))

\* the loop that ends at the first file that fails
RECURSIVE ConvertFrom_abort(_, _, _)
ConvertFrom_abort(files, index, results) ==
  IF index > Len(files) THEN Returned(results)
  ELSE LET file == files[index]
           result == convertPdfToJson(file)
       IN IF ~result.threw
          THEN ConvertFrom_abort(files, index + 1, results \o result.entries)
          ELSE Returned(Append(results,
                 ResultEntry(file.filename, <<>>, result.message)))

\* the converter that gives up the batch at the first file that fails
convertPdfsToJson_abort(files) == ConvertFrom_abort(files, 1, <<>>)
\* pdfConverter.js:297-324
convertPdfsToJson(files) == ConvertFrom(files, 1, <<>>)

\* index.js:1798-1815  the result loop of the handler: the transactions of
\* the entries without error, in the order of the entries
RECURSIVE allTransactions(_)
allTransactions(jsonResults) ==
  IF jsonResults = <<>> THEN <<>>
  ELSE LET result == jsonResults[1]
       IN (IF result.error # NULL THEN <<>> ELSE result.transactions)
            \o allTransactions(Tail(jsonResults))

\* ------------------------------------------------------------------------
\* State
\* ------------------------------------------------------------------------
VARIABLES
  activeAnalysisSessions,  \* index.js:1709
  reports,                 \* the reports table, by session_id
  slot,                    \* the POST /api/analysis requests in flight and
                           \* their background tasks
  reader,                  \* the GET /api/reports requests in flight
  seen,                    \* the last status each reader was answered
  calc,                    \* a function of the pipeline applied on its own:
                           \* its name, its input and its result
  messages,                \* the messages table, by session_id: the rows in
                           \* the order of their insertion
  files,                   \* the files table: whether it holds a row of the
                           \* session
  conversationHistory,     \* index.js:548  the array of each session, 0 when
                           \* the map has no entry
  histories,               \* the length of every history array
  deleted                  \* whether DELETE answered 204 for the session and
                           \* no POST was accepted for it since

\* the tables and the memory of the conversations
conversation == <<messages, files, conversationHistory, histories, deleted>>

vars == <<activeAnalysisSessions, reports, slot, reader, seen, calc, messages, files, conversationHistory, histories, deleted>>

\* the history arrays that can be referenced at one time: one by the
\* handler or task of every slot and one by the map of every session
Arrays == 1..(Cardinality(Slots) + Cardinality(Sessions))
NoArray == 0

IdleSlot ==
  [hpc |-> "idle", tpc |-> "none", sessionId |-> "none", filesCount |-> 0,
   transactionsWithIds |-> <<>>, obviousRevenue |-> <<>>,
   needsReview |-> <<>>, text |-> NoText,
   finalRevenueTransactions |-> <<>>, finalNonRevenueTransactions |-> <<>>,
   payload |-> NoPayload, error |-> NULL, response |-> 0,
   settled |-> FALSE, history |-> NoArray]

\* a reader that was not answered yet
NotAnswered == [status |-> "none", report_text |-> NULL]

IdleReader ==
  [pc |-> "idle", sessionId |-> "none", reportRow |-> NoRow,
   payload |-> NoPayload]

\* the server after its start: no claim, no row, no request
ServerInit ==
  /\ activeAnalysisSessions = {}
  /\ reports = [s \in Sessions |-> NoRow]
  /\ slot = [r \in Slots |-> IdleSlot]
  /\ reader = [o \in Observers |-> IdleReader]
  /\ seen = [o \in Observers |-> [s \in Sessions |-> NotAnswered]]
  /\ messages = [s \in Sessions |-> <<>>]
  /\ files = [s \in Sessions |-> FALSE]
  /\ conversationHistory = [s \in Sessions |-> NoArray]
  /\ histories = [a \in Arrays |-> 0]
  /\ deleted = [s \in Sessions |-> FALSE]

NoCalc == [fn |-> "none", done |-> FALSE]

Init == ServerInit /\ calc = NoCalc

\* the row of session s after upsertReport(s, payload); a failed statement
\* is caught and logged inside upsertReport and leaves the table as it is
Written(s, payload, dbOk) ==
  IF dbOk THEN [reports EXCEPT ![s] = upsertReport(reports[s], payload)]
  ELSE reports

\* ------------------------------------------------------------------------
\* The messages and the history arrays
\* ------------------------------------------------------------------------
\* An array is named after its holder: the array of the map entry of a
\* session after the session, an array that only handlers and tasks still
\* hold after the first of their slots.
SessionArray ==
  CHOOSE f \in [Sessions -> 1..Cardinality(Sessions)] :
    \A s, t \in Sessions : f[s] = f[t] => s = t
SlotArray ==
  CHOOSE f \in [Slots -> (Cardinality(Sessions) + 1)..
                         (Cardinality(Sessions) + Cardinality(Slots))] :
    \A q, r \in Slots : f[q] = f[r] => q = r

Holders(a, slots) == {r \in Slots : slots[r].history = a}

\* index.js:422-423 and 1750-1751
\* conversationHistory.get(sessionId) || []
HistoryOf(s) ==
  IF conversationHistory[s] # NoArray THEN conversationHistory[s]
  ELSE SessionArray[s]

\* the name of the array a once the map and the slots are as given
NameOf(a, map, slots) ==
  IF a = NoArray THEN NoArray
  ELSE IF \E s \in Sessions : map[s] = a
  THEN SessionArray[CHOOSE s \in Sessions : map[s] = a]
  ELSE IF Holders(a, slots) = {} THEN NoArray
  ELSE LET first == CHOOSE r \in Holders(a, slots) :
                      \A q \in Holders(a, slots) : SlotArray[r] <= SlotArray[q]
       IN SlotArray[first]

\* an entry of the map whose array is empty and held by no handler or task
\* is the same as no entry: conversationHistory.get(sessionId) || []
Kept(map, slots, lengths) ==
  [s \in Sessions |->
     IF map[s] # NoArray /\ lengths[map[s]] = 0 /\ Holders(map[s], slots) = {}
     THEN NoArray ELSE map[s]]

NamedMap(map, slots, lengths) ==
  LET kept == Kept(map, slots, lengths)
  IN [s \in Sessions |-> NameOf(kept[s], kept, slots)]

NamedSlots(map, slots, lengths) ==
  LET kept == Kept(map, slots, lengths)
  IN [r \in Slots |->
        [slots[r] EXCEPT !.history = NameOf(@, kept, slots)]]

\* the lengths of the arrays under their names; an array that nothing
\* refers to any more is forgotten
NamedLengths(map, slots, lengths) ==
  LET kept == Kept(map, slots, lengths)
  IN [b \in Arrays |->
        IF \E a \in Arrays : NameOf(a, kept, slots) = b
        THEN lengths[CHOOSE a \in Arrays : NameOf(a, kept, slots) = b]
        ELSE 0]

\* the map, the slots and the lengths are kept under the names of the
\* arrays
Remembered(map, slots, lengths) ==
  /\ conversationHistory' = NamedMap(map, slots, lengths)
  /\ slot' = NamedSlots(map, slots, lengths)
  /\ histories' = NamedLengths(map, slots, lengths)

\* index.js:308-326  saveMessageToDB inserts a row into messages
Message(role, messageOrder) == [role |-> role, message_order |-> messageOrder]

\* index.js:2054-2082  the rows that the task saves for the new items of a
\* run: the items of the roles assistant and user, each at the place it
\* has in the history
RECURSIVE ItemRows(_, _, _)
ItemRows(rawNewItems, historyLengthBefore, index) ==
  IF index >= Len(rawNewItems) THEN <<>>
  ELSE LET role == rawNewItems[index + 1]
           rest == ItemRows(rawNewItems, historyLengthBefore, index + 1)
       IN IF role = "assistant" \/ role = "user"
          THEN <<Message(role, historyLengthBefore + index + 1)>> \o rest
          ELSE rest

\* ------------------------------------------------------------------------
\* POST /api/analysis, index.js:1711-2297
\* ------------------------------------------------------------------------

\* a new request takes the first slot that is free
FirstIdle(r) == r = "r1" \/ slot["r1"].hpc # "idle"

\* index.js:1711-1756  the handler up to the conversion: the dedup check,
\* the claim, the check for files, the history array of the session and
\* the comment, which is pushed to the history and saved at the order
\* history.length
PostArrive(r, s, filesCount, comment) ==
  /\ slot[r].hpc = "idle"
  /\ FirstIdle(r)
  /\ IF s \in activeAnalysisSessions
     THEN /\ slot' = [slot EXCEPT ![r] =
                 [IdleSlot EXCEPT !.hpc = "done", !.sessionId = s,
                                  !.filesCount = filesCount,
                                  !.response = 409]]
          /\ UNCHANGED <<activeAnalysisSessions, conversation>>
     ELSE IF filesCount = 0
     THEN /\ activeAnalysisSessions' = activeAnalysisSessions \cup {s}
          /\ slot' = [slot EXCEPT ![r] =
                 [IdleSlot EXCEPT !.hpc = "done", !.sessionId = s,
                                  !.filesCount = filesCount,
                                  !.response = 400]]
          /\ UNCHANGED conversation
     ELSE LET history == HistoryOf(s)
              length == histories[history] + (IF comment THEN 1 ELSE 0)
          IN /\ length <= MaxHistory
             /\ activeAnalysisSessions' = activeAnalysisSessions \cup {s}
             /\ slot' = [slot EXCEPT ![r] =
                    [IdleSlot EXCEPT !.hpc = "ingest", !.sessionId = s,
                                     !.filesCount = filesCount,
                                     !.history = history]]
             /\ conversationHistory' =
                    [conversationHistory EXCEPT ![s] = history]
             /\ histories' = [histories EXCEPT ![history] = length]
             /\ messages' =
                    IF comment
                    THEN [messages EXCEPT
                            ![s] = Append(@, Message("user", length))]
                    ELSE messages
             /\ deleted' = [deleted EXCEPT ![s] = FALSE]
             /\ UNCHANGED files
  /\ UNCHANGED <<reports, reader, seen, calc>>

\* index.js:1936-1941, 1950 and 2265-2273  the conversion or an upload
\* throws: the handler's catch releases the claim
IngestFail(r) ==
  /\ slot[r].hpc = "ingest"
  /\ activeAnalysisSessions' = activeAnalysisSessions \ {slot[r].sessionId}
  /\ Remembered(conversationHistory,
                [slot EXCEPT ![r] =
                   [@ EXCEPT !.hpc = "catch_upsert",
                             !.error = Str("conversion failed"),
                             !.history = NoArray]],
                histories)
  /\ UNCHANGED <<reports, reader, seen, calc, messages, files, deleted>>

\* index.js:2181-2209  what the background task computes once it has the
\* decisions: the final lists, the statistics and the payload it upserts
Finalized(rec, text, lastResponseId) ==
  LET decisionsMap == BuildDecisionsMap(parseClassifierResponse(text), EmptyMap)
      revenue == SortByDate(rec.obviousRevenue
                            \o reviewedRevenue(decisionsMap, rec.needsReview))
      nonRevenue == SortByDate(reviewedNonRevenue(decisionsMap, rec.needsReview))
      stats == [totalTransactions |-> Len(rec.transactionsWithIds),
                autoRevenue |-> Len(rec.obviousRevenue),
                agentReviewed |-> Len(rec.needsReview),
                agentDecisions |-> Cardinality(DOMAIN decisionsMap),
                unresolved |-> Max(0, Len(rec.needsReview)
                                      - Cardinality(DOMAIN decisionsMap))]
  IN [rec EXCEPT
        !.tpc = "final_upsert",
        !.text = text,
        !.history = NoArray,
        !.finalRevenueTransactions = revenue,
        !.finalNonRevenueTransactions = nonRevenue,
        !.payload = CompletedPayload(rec.filesCount,
                      buildStructuredSummary(revenue, nonRevenue, stats),
                      lastResponseId,
                      openaiStatusOf(rec.needsReview, decisionsMap))]

\* a task that runs the classifier also when nothing needs review
Spawned_reviewAlways(rec) ==
  LET split == splitTransactionsByConfidence(rec.transactionsWithIds)
      started == [rec EXCEPT !.obviousRevenue = split.obviousRevenue,
                             !.needsReview = split.needsReview]
  IN [started EXCEPT !.tpc = "llm"]

\* index.js:2007-2048  the split, and the background task from its start to
\* its first await: the classifier run when there is something to review,
\* the final upsert otherwise
Spawned(rec) ==
  LET split == splitTransactionsByConfidence(rec.transactionsWithIds)
      started == [rec EXCEPT !.obviousRevenue = split.obviousRevenue,
                             !.needsReview = split.needsReview]
  IN IF Len(split.needsReview) > 0
     THEN [started EXCEPT !.tpc = "llm"]
     ELSE Finalized(started, NoText, NULL)

\* index.js:1774-2252  the PDFs are converted and the other files
\* uploaded, the extracted transactions get their internal ids, the initial
\* generating row is written, the task is started and the handler awaits
\* getSessionProgress
Ingest(r, transactions, dbOk) ==
  /\ slot[r].hpc = "ingest"
  /\ reports' = Written(slot[r].sessionId,
                        GeneratingPayload(slot[r].filesCount), dbOk)
  /\ Remembered(conversationHistory,
                [slot EXCEPT ![r] =
                   [Spawned([@ EXCEPT !.transactionsWithIds =
                               attachInternalTransactionIds(transactions,
                                                            slot[r].sessionId)])
                      EXCEPT !.hpc = "progress"]],
                histories)
  /\ files' = [files EXCEPT
                 ![slot[r].sessionId] = @ \/ (Len(transactions) > 0 /\ dbOk)]
  /\ UNCHANGED <<activeAnalysisSessions, reader, seen, calc, messages,
                 deleted>>

\* index.js:2252-2273  getSessionProgress answers and the handler responds
\* 202, or it throws and the handler's catch releases the claim
HandlerProgress(r, dbOk) ==
  /\ slot[r].hpc = "progress"
  /\ IF dbOk
     THEN /\ slot' = [slot EXCEPT ![r] =
                 [@ EXCEPT !.hpc = "done", !.response = 202]]
          /\ UNCHANGED activeAnalysisSessions
     ELSE /\ activeAnalysisSessions' =
                 activeAnalysisSessions \ {slot[r].sessionId}
          /\ slot' = [slot EXCEPT ![r] =
                 [@ EXCEPT !.hpc = "catch_upsert",
                           !.error = Str("database error")]]
  /\ UNCHANGED <<reports, reader, seen, calc, conversation>>

\* index.js:2275-2296  the handler's catch records the failure and
\* responds 500
HandlerCatchUpsert(r, dbOk) ==
  /\ slot[r].hpc = "catch_upsert"
  /\ reports' = Written(slot[r].sessionId,
                        FailedPayload(slot[r].filesCount, slot[r].error), dbOk)
  /\ slot' = [slot EXCEPT ![r] = [@ EXCEPT !.hpc = "done", !.response = 500]]
  /\ UNCHANGED <<activeAnalysisSessions, reader, seen, calc, conversation>>

\* index.js:2048-2197  the classifier run returns: its new items are pushed
\* to the history and those of the roles assistant and user are saved
LlmReturn(r, text, rawNewItems) ==
  /\ slot[r].tpc = "llm"
  /\ LET history == slot[r].history
         historyLengthBefore == histories[history]
     IN /\ historyLengthBefore + Len(rawNewItems) <= MaxHistory
        /\ messages' = [messages EXCEPT
             ![slot[r].sessionId] =
                @ \o ItemRows(rawNewItems, historyLengthBefore, 0)]
        /\ Remembered(conversationHistory,
                      [slot EXCEPT ![r] = Finalized(@, text, Str("resp"))],
                      [histories EXCEPT ![history] = @ + Len(rawNewItems)])
  /\ UNCHANGED <<activeAnalysisSessions, reports, reader, seen, calc, files,
                 deleted>>

\* index.js:2048 and 2219-2223  the classifier run throws
LlmRaise(r) ==
  /\ slot[r].tpc = "llm"
  /\ Remembered(conversationHistory,
                [slot EXCEPT ![r] =
                   [@ EXCEPT !.tpc = "fail_upsert", !.text = Raised,
                             !.history = NoArray,
                             !.payload = FailedPayload(slot[r].filesCount,
                                           Str("classifier error"))]],
                histories)
  /\ UNCHANGED <<activeAnalysisSessions, reports, reader, seen, calc,
                 messages, files, deleted>>

\* whether, as a task ends, its session has a terminal stored status and no
\* dedup claim
Settled(s, table, active) ==
  /\ table[s] # NoRow
  /\ table[s].status \in {"completed", "failed"}
  /\ s \notin active

\* the final upsert without the finally block
TaskFinalUpsert_noRelease(r, dbOk) ==
  /\ slot[r].tpc = "final_upsert"
  /\ reports' = Written(slot[r].sessionId, slot[r].payload, dbOk)
  /\ UNCHANGED activeAnalysisSessions
  /\ slot' = [slot EXCEPT ![r] =
       [@ EXCEPT !.tpc = "done",
                 !.settled = Settled(slot[r].sessionId, reports',
                                     activeAnalysisSessions')]]
  /\ UNCHANGED <<reader, seen, calc, conversation>>

\* index.js:2199-2209 and 2239-2242  the final upsert, then the finally
\* block releases the claim
TaskFinalUpsert(r, dbOk) ==
  /\ slot[r].tpc = "final_upsert"
  /\ reports' = Written(slot[r].sessionId, slot[r].payload, dbOk)
  /\ activeAnalysisSessions' = activeAnalysisSessions \ {slot[r].sessionId}
  /\ slot' = [slot EXCEPT ![r] =
       [@ EXCEPT !.tpc = "done",
                 !.settled = Settled(slot[r].sessionId, reports',
                                     activeAnalysisSessions')]]
  /\ UNCHANGED <<reader, seen, calc, conversation>>

\* the failure upsert without the finally block
TaskFailUpsert_noRelease(r, dbOk) ==
  /\ slot[r].tpc = "fail_upsert"
  /\ reports' = Written(slot[r].sessionId, slot[r].payload, dbOk)
  /\ UNCHANGED activeAnalysisSessions
  /\ slot' = [slot EXCEPT ![r] =
       [@ EXCEPT !.tpc = "done",
                 !.settled = Settled(slot[r].sessionId, reports',
                                     activeAnalysisSessions')]]
  /\ UNCHANGED <<reader, seen, calc, conversation>>

\* index.js:2224-2242  the failure upsert, then the finally block
TaskFailUpsert(r, dbOk) ==
  /\ slot[r].tpc = "fail_upsert"
  /\ reports' = Written(slot[r].sessionId, slot[r].payload, dbOk)
  /\ activeAnalysisSessions' = activeAnalysisSessions \ {slot[r].sessionId}
  /\ slot' = [slot EXCEPT ![r] =
       [@ EXCEPT !.tpc = "done",
                 !.settled = Settled(slot[r].sessionId, reports',
                                     activeAnalysisSessions')]]
  /\ UNCHANGED <<reader, seen, calc, conversation>>

\* a request that was answered and whose task, if any, has ended is over
Recycle(r) ==
  /\ slot[r].hpc = "done"
  /\ slot[r].tpc \in {"none", "done"}
  /\ slot' = [slot EXCEPT ![r] = IdleSlot]
  /\ UNCHANGED <<activeAnalysisSessions, reports, reader, seen, calc, conversation>>

\* ------------------------------------------------------------------------
\* GET /api/reports, GET /api/reports/:sessionId and the reconciliation
\* with the LLM provider, index.js:409-505 and 2299-2348
\* ------------------------------------------------------------------------
FINAL_REPORT_STATUSES == {"completed", "failed"}
OPENAI_FAILURE_STATUSES == {"failed", "cancelled", "expired"}

\* index.js:412-417
mapOpenAIStatusToReportStatus(status) ==
  IF status = "completed" THEN "completed"
  ELSE IF status \in OPENAI_FAILURE_STATUSES THEN "failed"
  ELSE "generating"

\* index.js:1467-1480  the rendering of a structured report
formatReportAsText(reportStructured) == <<"text", reportStructured[2]>>

\* index.js:633-637  whether normalizeStructuredValue finds the JSON of an
\* object with the fields of a structured report in the value
IsStructuredReport(value) == value # NULL /\ value[1] = "summary"

\* index.js:1600-1614  the row as it is answered: the text is the rendering
\* of report_structured when the row has one, else of a report_text that
\* is itself the JSON of a report, else the report_text
ensureHumanReadableReportText(row) ==
  IF IsStructuredReport(row.report_structured)
  THEN [row EXCEPT !.report_text = formatReportAsText(row.report_structured)]
  ELSE IF IsStructuredReport(row.report_text)
  THEN [row EXCEPT !.report_text = formatReportAsText(row.report_text)]
  ELSE row

\* index.js:2343  res.json(ensureHumanReadableReportText(finalRow))
Answered(o, s, finalRow) ==
  [seen EXCEPT ![o][s] =
     [status |-> finalRow.status,
      report_text |-> ensureHumanReadableReportText(finalRow).report_text]]

\* a check that only looks at the response id
NothingToUpdate_responseIdOnly(reportRow) ==
  reportRow.openai_response_id = NULL

\* a check that only looks at the status
NothingToUpdate_statusOnly(reportRow) ==
  reportRow.status \in FINAL_REPORT_STATUSES

\* index.js:441-448  maybeUpdateReportFromOpenAI returns at once the row
\* that is final or has no response id
NothingToUpdate(reportRow) ==
  \/ reportRow.status \in FINAL_REPORT_STATUSES
  \/ reportRow.openai_response_id = NULL

\* index.js:2324-2343  the row is read and answered as it is
GetReport(o, s) ==
  /\ reader[o].pc = "idle"
  /\ reports[s] # NoRow
  /\ NothingToUpdate(reports[s])
  /\ seen' = Answered(o, s, reports[s])
  /\ UNCHANGED <<activeAnalysisSessions, reports, slot, reader, calc, conversation>>

\* index.js:2324-2343 and 450  the row is read and the provider is asked
\* for the status of the row's response
GetStart(o, s) ==
  /\ reader[o].pc = "idle"
  /\ reports[s] # NoRow
  /\ ~NothingToUpdate(reports[s])
  /\ reader' = [reader EXCEPT ![o] =
       [IdleReader EXCEPT !.pc = "retrieve", !.sessionId = s,
                          !.reportRow = reports[s]]]
  /\ UNCHANGED <<activeAnalysisSessions, reports, slot, seen, calc, conversation>>

\* index.js:419-439  appendAssistantMessage pushes the text to the history
\* of the session and saves it at the order COUNT(*) + 1
AppendAssistantMessage(s) ==
  LET history == HistoryOf(s)
  IN /\ histories[history] < MaxHistory
     /\ conversationHistory' = [conversationHistory EXCEPT ![s] = history]
     /\ histories' = [histories EXCEPT ![history] = @ + 1]
     /\ messages' = [messages EXCEPT
          ![s] = Append(@, Message("assistant", Len(@) + 1))]

\* index.js:450-486  the provider answers with the response's status and
\* output text: the text of a completed response is appended to the
\* messages when the row read has no text, and the payload of the
\* write-back is built from the row read
GetRetrieve(o, openaiStatus, outputText) ==
  /\ reader[o].pc = "retrieve"
  /\ IF /\ mapOpenAIStatusToReportStatus(openaiStatus) = "completed"
        /\ outputText # EmptyString
        /\ OrNull(reader[o].reportRow.report_text) = NULL
     THEN AppendAssistantMessage(reader[o].sessionId)
     ELSE UNCHANGED <<messages, conversationHistory, histories>>
  /\ LET reportRow == reader[o].reportRow
         reportStatus == mapOpenAIStatusToReportStatus(openaiStatus)
         reportText ==
           IF reportStatus = "completed"
           THEN IF outputText # EmptyString THEN outputText
                ELSE OrNull(reportRow.report_text)
           ELSE IF reportStatus = "failed"
           THEN IF OrNull(reportRow.report_text) = NULL
                THEN Str("provider status")
                ELSE reportRow.report_text
           ELSE OrNull(reportRow.report_text)
         completionTimestamp ==
           IF reportStatus \in {"completed", "failed"} THEN Timestamp
           ELSE OrNull(reportRow.completed_at)
     IN reader' = [reader EXCEPT ![o] =
          [@ EXCEPT !.pc = "upsert",
                    !.payload = Payload(reportStatus, reportText,
                                  reportRow.report_structured,
                                  reportRow.files_count, reportRow.files_data,
                                  completionTimestamp, reportRow.comment,
                                  Str("resp"), Str(openaiStatus))]]
  /\ UNCHANGED <<activeAnalysisSessions, reports, slot, seen, calc, files,
                 deleted>>

\* index.js:450 and 498-504  the provider request throws: the row read is
\* answered
GetRetrieveFail(o) ==
  /\ reader[o].pc = "retrieve"
  /\ seen' = Answered(o, reader[o].sessionId, reader[o].reportRow)
  /\ reader' = [reader EXCEPT ![o] = IdleReader]
  /\ UNCHANGED <<activeAnalysisSessions, reports, slot, calc, conversation>>

\* index.js:476-486
GetUpsert(o, dbOk) ==
  /\ reader[o].pc = "upsert"
  /\ reports' = Written(reader[o].sessionId, reader[o].payload, dbOk)
  /\ reader' = [reader EXCEPT ![o] = [@ EXCEPT !.pc = "reread"]]
  /\ UNCHANGED <<activeAnalysisSessions, slot, seen, calc, conversation>>

\* index.js:488-497  updatedRow || reportRow is answered
GetReread(o) ==
  /\ reader[o].pc = "reread"
  /\ LET s == reader[o].sessionId
         finalRow == IF reports[s] # NoRow THEN reports[s]
                     ELSE reader[o].reportRow
     IN seen' = Answered(o, s, finalRow)
  /\ reader' = [reader EXCEPT ![o] = IdleReader]
  /\ UNCHANGED <<activeAnalysisSessions, reports, slot, calc, conversation>>

\* index.js:2361-2393  DELETE /api/reports/:sessionId of an existing
\* report: the rows of the three tables and the entry of the map are
\* deleted and 204 is answered
DeleteReport(s) ==
  /\ reports[s] # NoRow
  /\ messages' = [messages EXCEPT ![s] = <<>>]
  /\ files' = [files EXCEPT ![s] = FALSE]
  /\ reports' = [reports EXCEPT ![s] = NoRow]
  /\ Remembered([conversationHistory EXCEPT ![s] = NoArray], slot, histories)
  /\ deleted' = [deleted EXCEPT ![s] = TRUE]
  /\ UNCHANGED <<activeAnalysisSessions, reader, seen, calc>>

\* ------------------------------------------------------------------------
\* Specifications
\* ------------------------------------------------------------------------
ProviderStatuses == {"completed", "failed", "in_progress"}
OutputTexts == {EmptyString, Str("classifier output")}

\* the steps of the submissions in the slots R and of their tasks
Submissions(R) ==
  \/ \E r \in R, s \in Sessions, n \in FewFileCounts :
       PostArrive(r, s, n, FALSE)
  \/ \E r \in R, txs \in FewTxLists, dbOk \in BOOLEAN : Ingest(r, txs, dbOk)
  \/ \E r \in R : IngestFail(r)
  \/ \E r \in R, dbOk \in BOOLEAN : HandlerProgress(r, dbOk)
  \/ \E r \in R, dbOk \in BOOLEAN : HandlerCatchUpsert(r, dbOk)
  \/ \E r \in R : \E text \in FewTexts(slot[r].sessionId) : LlmReturn(r, text, <<>>)
  \/ \E r \in R : LlmRaise(r)
  \/ \E r \in R, dbOk \in BOOLEAN : TaskFinalUpsert(r, dbOk)
  \/ \E r \in R, dbOk \in BOOLEAN : TaskFailUpsert(r, dbOk)
  \/ \E r \in R : Recycle(r)

\* the reads that need no reconciliation, and the deletions
PlainRequests ==
  \/ \E o \in Observers, s \in Sessions : GetReport(o, s)
  \/ \E s \in Sessions : DeleteReport(s)

\* the reads that reconcile a row with the provider
Reconciliations ==
  \/ \E o \in Observers, s \in Sessions : GetStart(o, s)
  \/ \E o \in Observers, st \in ProviderStatuses, out \in OutputTexts :
       GetRetrieve(o, st, out)
  \/ \E o \in Observers : GetRetrieveFail(o)
  \/ \E o \in Observers, dbOk \in BOOLEAN : GetUpsert(o, dbOk)
  \/ \E o \in Observers : GetReread(o)

\* the server under concurrent submissions, database failures and
\* deletions
Next == Submissions(Slots) \/ \E s \in Sessions : DeleteReport(s)

Spec == Init /\ [][Next]_vars

\* the server under successive submissions, database failures, deletions
\* and reads of the rows as they are
NextReads == Submissions({"r1"}) \/ PlainRequests

SpecReads == Init /\ [][NextReads]_vars

\* one submission from its arrival to the end of its background task, for
\* every extractor output and every classifier answer within the bounds
NextRun ==
  \/ \E n \in 0..MaxFiles : PostArrive("r1", "s1", n, FALSE)
  \/ \E txs \in AllTxLists : Ingest("r1", txs, TRUE)
  \/ HandlerProgress("r1", TRUE)
  \/ \E text \in AllTexts("s1") : LlmReturn("r1", text, <<>>)
  \/ LlmRaise("r1")
  \/ TaskFinalUpsert("r1", TRUE)
  \/ TaskFailUpsert("r1", TRUE)

SpecRun == Init /\ [][NextRun]_vars

\* the server when every database write succeeds and every classifier run
\* that was started eventually returns or throws
SubmissionsWritten(R) ==
  \/ \E r \in R, s \in Sessions, n \in FewFileCounts :
       PostArrive(r, s, n, FALSE)
  \/ \E r \in R, txs \in FewTxLists : Ingest(r, txs, TRUE)
  \/ \E r \in R : IngestFail(r)
  \/ \E r \in R, dbOk \in BOOLEAN : HandlerProgress(r, dbOk)
  \/ \E r \in R : HandlerCatchUpsert(r, TRUE)
  \/ \E r \in R : \E text \in FewTexts(slot[r].sessionId) : LlmReturn(r, text, <<>>)
  \/ \E r \in R : LlmRaise(r)
  \/ \E r \in R : TaskFinalUpsert(r, TRUE)
  \/ \E r \in R : TaskFailUpsert(r, TRUE)
  \/ \E r \in R : Recycle(r)

\* the server under successive submissions whose writes succeed, deletions
\* and reads that reconcile rows with the provider
NextReaders ==
  \/ SubmissionsWritten({"r1"})
  \/ \E s \in Sessions : DeleteReport(s)
  \/ Reconciliations

SpecReaders == Init /\ [][NextReaders]_vars

\* index.js:2555-2595 and 1709  the process exits while a handler or a
\* task runs, and a new process starts: the set of claims, the map of
\* histories, the handlers, the tasks and the requests in flight are gone,
\* the tables stay. The new process starts with empty histories, so the
\* exits are counted against the rows of messages to keep these bounded.
ProcessExit ==
  /\ \E r \in Slots : slot[r].hpc # "idle"
  /\ \A s \in Sessions : Len(messages[s]) < MaxHistory
  /\ activeAnalysisSessions' = {}
  /\ slot' = [r \in Slots |-> IdleSlot]
  /\ reader' = [o \in Observers |-> IdleReader]
  /\ conversationHistory' = [s \in Sessions |-> NoArray]
  /\ histories' = [a \in Arrays |-> 0]
  /\ UNCHANGED <<reports, seen, calc, messages, files, deleted>>

\* the server under successive submissions that the database and the
\* classifier serve, exits of the process, and reads of every kind
NextRestart ==
  \/ \E s \in Sessions : PostArrive("r1", s, 1, FALSE)
  \/ \E txs \in FewTxLists : Ingest("r1", txs, TRUE)
  \/ HandlerProgress("r1", TRUE)
  \/ \E text \in FewTexts(slot["r1"].sessionId) : LlmReturn("r1", text, <<>>)
  \/ TaskFinalUpsert("r1", TRUE)
  \/ Recycle("r1")
  \/ ProcessExit
  \/ \E o \in Observers, s \in Sessions : GetReport(o, s)
  \/ Reconciliations

SpecRestart == Init /\ [][NextRestart]_vars

TaskStep(r) ==
  \/ LlmRaise(r)
  \/ \E text \in FewTexts(slot[r].sessionId) : LlmReturn(r, text, <<>>)
  \/ TaskFinalUpsert(r, TRUE)
  \/ TaskFailUpsert(r, TRUE)

NextLive == SubmissionsWritten(Slots) \/ \E s \in Sessions : DeleteReport(s)

SpecLive ==
  Init /\ [][NextLive]_vars /\ \A r \in Slots : WF_vars(TaskStep(r))

\* the new items of a classifier run, by their roles: the answer of the
\* assistant, alone or after the reasoning item of the model, which has no
\* role
NewItemLists == {<<"assistant">>, <<"reasoning", "assistant">>}

\* the server under successive submissions with or without a comment, the
\* new items of the classifier runs and reads that reconcile rows with the
\* provider, with a database that works
NextMessages ==
  \/ \E comment \in BOOLEAN : PostArrive("r1", "s1", 1, comment)
  \/ \E txs \in FewTxLists : Ingest("r1", txs, TRUE)
  \/ HandlerProgress("r1", TRUE)
  \/ \E rawNewItems \in NewItemLists :
       LlmReturn("r1", NoEntriesText("garbage"), rawNewItems)
  \/ TaskFinalUpsert("r1", TRUE)
  \/ Recycle("r1")
  \/ Reconciliations

SpecMessages == Init /\ [][NextMessages]_vars

\* ------------------------------------------------------------------------
\* The functions of the pipeline applied on their own
\* ------------------------------------------------------------------------
\* the input that was drawn for the function fn, before the function is
\* applied
Drawn(fn, input) == [fn |-> fn, in |-> input, done |-> FALSE, out |-> "none"]

\* the function fn has been applied to its input
Done(fn) == calc.fn = fn /\ calc.done

\* the result of the function is recorded
Applied(result) ==
  /\ calc' = [calc EXCEPT !.done = TRUE, !.out = result]
  /\ UNCHANGED <<activeAnalysisSessions, reports, slot, reader, seen,
               conversation>>

\* the purposes and the senders of the transactions: every combination of
\* markers, or a text without any marker
PurposeTexts ==
  (SUBSET ({"terminal", "non_revenue", "revenue", "topup"}
             \cup {PhraseHead(k) : k \in PhraseClasses}))
    \cup {{"other"}}
SenderTexts ==
  (SUBSET ({"terminal", "non_revenue", "revenue", "topup"}
             \cup {PhraseTail(k) : k \in PhraseClasses}))
    \cup {{"other"}}

InitClassify ==
  /\ ServerInit
  /\ \E purpose \in PurposeTexts, sender \in SenderTexts :
       calc = Drawn("classify", Tx(NoId, NoDate, 1, purpose, sender))

Classify ==
  /\ calc.fn = "classify" /\ ~calc.done
  /\ Applied(classifyTransactionHeuristically(calc.in))

SpecClassify == InitClassify /\ [][Classify]_vars

\* index.js:37  limits: { fileSize: 50 * 1024 * 1024 }
fileSize == 50 * 1024 * 1024

\* index.js:35-39 and 1711  upload.array('files') passes a MulterError with
\* the code LIMIT_FILE_SIZE to next() when a file has more bytes than the
\* limit; no error-handling middleware is registered (index.js:79-126), so
\* the error handler of Express answers: status 500 and a body that is not
\* JSON and has no code
upload(sizes) ==
  IF \E i \in 1..Len(sizes) : sizes[i] > fileSize
  THEN [rejected |-> TRUE, status |-> 500, code |-> NULL]
  ELSE [rejected |-> FALSE, status |-> 0, code |-> NULL]

\* the sizes of the files of a request, in bytes
FileSizes == {1, 1024, fileSize, fileSize + 1}
Uploads == UNION {[1..n -> FileSizes] : n \in 1..MaxBatch}

InitUpload == ServerInit /\ \E sizes \in Uploads : calc = Drawn("upload", sizes)

\* the request is stopped by the upload middleware and answered by the
\* error handler
UploadRejected ==
  /\ calc.fn = "upload" /\ ~calc.done
  /\ upload(calc.in).rejected
  /\ Applied(upload(calc.in))

\* the upload middleware calls the handler
UploadAccepted ==
  /\ calc.fn = "upload"
  /\ ~upload(calc.in).rejected
  /\ PostArrive("r1", "s1", Len(calc.in), FALSE)

\* one request with files of any size up to one byte above the limit, with
\* a database and a classifier that work
NextUpload ==
  \/ UploadRejected
  \/ UploadAccepted
  \/ \E txs \in FewTxLists : Ingest("r1", txs, TRUE)
  \/ HandlerProgress("r1", TRUE)
  \/ \E text \in FewTexts("s1") : LlmReturn("r1", text, <<>>)
  \/ TaskFinalUpsert("r1", TRUE)

SpecUpload == InitUpload /\ [][NextUpload]_vars

\* Origins and allow-list entries are sequences of pieces: a piece is one of
\* the characters "*", "." and "\\", or a run of characters that holds none
\* of them and nothing else that a regular expression reads specially.
MaxOrigin == 6

\* index.js:73  process.env.FRONTEND_URL: not set, or the origin of a
\* deployment
FrontendUrls == {<<>>, <<"https://", "foo", ".", "io">>}

\* index.js:66-74  the list, with .filter(Boolean) dropping a FRONTEND_URL
\* that is not set
allowedOrigins(frontendUrl) ==
  LET listed == << <<"http://localhost:3000">>,
                   <<"http://localhost:5173">>,
                   <<"http://localhost:8787">>,
                   <<"https://", "mshaim001-hue", ".", "github", ".", "io">>,
                   <<"https://", "*", ".", "github", ".", "io">>,
                   <<"https://", "*", ".", "githubpages", ".", "io">>,
                   frontendUrl >>
  IN SelectSeq(listed, LAMBDA entry : entry # <<>>)

\* String.prototype.replace with a global pattern of one character: every
\* occurrence of the piece `from` becomes the pieces `to`
RECURSIVE replace(_, _, _)
replace(string, from, to) ==
  IF string = <<>> THEN <<>>
  ELSE (IF Head(string) = from THEN to ELSE <<Head(string)>>) \o replace(Tail(string), from, to)

\* index.js:91-93  allowed.replace(/\*/g, '.*').replace(/\./g, '\\.')
pattern(allowed) == replace(replace(allowed, "*", <<".", "*">>), ".", <<"\\", ".">>)

\* new RegExp: the atoms of a source text. A backslash makes the next piece
\* a literal, a "." that is not escaped matches any character, a "*" lets
\* the atom before it repeat zero or more times.
RECURSIVE RegExp(_)
RegExp(source) ==
  IF source = <<>> THEN <<>>
  ELSE LET escaped == Head(source) = "\\" /\ Len(source) >= 2
           rest == IF escaped THEN Tail(Tail(source)) ELSE Tail(source)
           starred == rest # <<>> /\ Head(rest) = "*"
           atom == [piece |-> IF escaped THEN source[2] ELSE Head(source),
                    any |-> ~escaped /\ Head(source) = ".",
                    star |-> starred]
       IN <<atom>> \o RegExp(IF starred THEN Tail(rest) ELSE rest)

\* the atom matches the text: a run of ordinary characters matches itself,
\* the any-character atom matches every piece (a run of characters is
\* matched by a row of such atoms only under a star)
Fits(atom, piece) == IF atom.any THEN atom.star ELSE atom.piece = piece

\* RegExp.prototype.test of ^atoms$ on the origin
RECURSIVE test(_, _)
test(atoms, origin) ==
  IF atoms = <<>> THEN origin = <<>>
  ELSE IF Head(atoms).star
       THEN \/ test(Tail(atoms), origin)
            \/ origin # <<>> /\ Fits(Head(atoms), Head(origin)) /\ test(atoms, Tail(origin))
       ELSE origin # <<>> /\ Fits(Head(atoms), Head(origin)) /\ test(Tail(atoms), Tail(origin))

includes(string, piece) == \E i \in 1..Len(string) : string[i] = piece

\* index.js:85-98  the test of one entry of the list
isAllowedBy(origin, allowed) ==
  IF origin = allowed THEN TRUE
  ELSE IF includes(allowed, "*") THEN test(RegExp(pattern(allowed)), origin)
  ELSE FALSE

\* index.js:80-106  the origin callback: TRUE when the origin is let
\* through, FALSE when the callback gets the error
origin(requestOrigin, list) ==
  IF requestOrigin = <<>> THEN TRUE
  ELSE LET isAllowed == \E i \in 1..Len(list) : isAllowedBy(requestOrigin, list[i])
       IN isAllowed \/ Len(list) = 0

\* the origins of the requests: no Origin header, or pieces in any order
OriginPieces == {"https://", "foo", ".", "github", "io"}
Origins == SeqsUpTo(OriginPieces, MaxOrigin)

InitCors ==
  /\ ServerInit
  /\ \E requestOrigin \in Origins, frontendUrl \in FrontendUrls :
       calc = Drawn("cors", [origin |-> requestOrigin, frontendUrl |-> frontendUrl])

Cors ==
  /\ calc.fn = "cors" /\ ~calc.done
  /\ Applied(origin(calc.in.origin, allowedOrigins(calc.in.frontendUrl)))

SpecCors == InitCors /\ [][Cors]_vars

\* Amounts are decimals: a sign, the digits of the integer part without
\* leading zeros, and three fraction digits. A text is a sequence of
\* characters; "nbsp" is U+00A0, "nnbsp" is U+202F and "quote" is any of the
\* four quotation marks that sanitizeNumberString removes.
MaxDigits == 7

DigitChars == {"0", "1", "2", "3", "4", "5", "6", "7", "8", "9"}
\* Number() of a text that is no number
NaN == [negative |-> FALSE, integer |-> <<>>, fraction |-> <<>>]

Decimal(negative, integer, fraction) == [negative |-> negative, integer |-> integer, fraction |-> fraction]

Successor(digit) ==
  CASE digit = "0" -> "1" [] digit = "1" -> "2" [] digit = "2" -> "3"
    [] digit = "3" -> "4" [] digit = "4" -> "5" [] digit = "5" -> "6"
    [] digit = "6" -> "7" [] digit = "7" -> "8" [] digit = "8" -> "9"

\* the digits of the number that is one more
RECURSIVE Increment(_)
Increment(digits) ==
  IF digits = <<>> THEN <<"1">>
  ELSE LET front == SubSeq(digits, 1, Len(digits) - 1)
           last == digits[Len(digits)]
       IN IF last = "9" THEN Increment(front) \o <<"0">>
          ELSE front \o <<Successor(last)>>

\* the digits with the separator between the groups of three, from the right
RECURSIVE GroupsOfThree(_, _)
GroupsOfThree(digits, separator) ==
  IF Len(digits) <= 3 THEN digits
  ELSE GroupsOfThree(SubSeq(digits, 1, Len(digits) - 3), separator)
         \o <<separator>> \o SubSeq(digits, Len(digits) - 2, Len(digits))

\* index.js:1142-1145  Number.prototype.toLocaleString with
\* minimumFractionDigits 2 and maximumFractionDigits 2: the amount rounded
\* half away from zero to two fraction digits. With the data of ru-RU the
\* groups are separated by U+00A0 and the fraction by a comma; a runtime
\* without that data falls back to en-US, with commas and a dot.
toLocaleString(amount, locale) ==
  LET hundredths == amount.integer \o SubSeq(amount.fraction, 1, 2)
      rounded == IF amount.fraction[3] \in {"5", "6", "7", "8", "9"}
                 THEN Increment(hundredths) ELSE hundredths
      integer == SubSeq(rounded, 1, Len(rounded) - 2)
      fraction == SubSeq(rounded, Len(rounded) - 1, Len(rounded))
      group == IF locale = "ru-RU" THEN "nbsp" ELSE ","
      decimal == IF locale = "ru-RU" THEN "," ELSE "."
  IN (IF amount.negative THEN <<"-">> ELSE <<>>)
       \o GroupsOfThree(integer, group) \o <<decimal>> \o fraction

\* index.js:1140-1146  the amount is finite
formatCurrencyKzt(amount, locale) == toLocaleString(amount, locale) \o <<" ", "K", "Z", "T">>

\* String.prototype.lastIndexOf, counted from 1, 0 when the character is
\* not in the text
lastIndexOf(string, character) ==
  LET at == {i \in 1..Len(string) : string[i] = character}
  IN IF at = {} THEN 0 ELSE CHOOSE i \in at : \A j \in at : j <= i

\* String.prototype.replace with a pattern that is a string: the first
\* occurrence only
RECURSIVE replaceFirst(_, _, _)
replaceFirst(string, from, to) ==
  IF string = <<>> THEN <<>>
  ELSE IF Head(string) = from THEN to \o Tail(string)
  ELSE <<Head(string)>> \o replaceFirst(Tail(string), from, to)

Signed(negative, numeric) == (IF negative THEN <<"-">> ELSE <<>>) \o numeric

\* a sanitizer that reads every comma as a separator of groups
sanitizeNumberString_commaGroups(value) ==
  SelectSeq(value, LAMBDA c : c \in DigitChars \union {".", "-"})

\* index.js:801-865
sanitizeNumberString(value) ==
  LET trimmed == SelectSeq(value, LAMBDA c : c \notin {"nbsp", "nnbsp", " ", "quote"})
      signedStart == trimmed # <<>> /\ Head(trimmed) \in {"-", "+"}
      cleaned == IF signedStart THEN Tail(trimmed) ELSE trimmed
      kept == SelectSeq(cleaned, LAMBDA c : c \in DigitChars \union {",", ".", "-"})
      negative == \/ trimmed # <<>> /\ Head(trimmed) = "-"
                  \/ kept # <<>> /\ Head(kept) = "-"
      numeric == replace(kept, "-", <<>>)
      hasComma == includes(numeric, ",")
      hasDot == includes(numeric, ".")
      separatorIndex == IF lastIndexOf(numeric, ",") > lastIndexOf(numeric, ".")
                        THEN lastIndexOf(numeric, ",") ELSE lastIndexOf(numeric, ".")
      separator == numeric[separatorIndex]
      fractionalLength == Len(numeric) - separatorIndex
      separatorsCount == Cardinality({i \in 1..Len(numeric) : numeric[i] = separator})
      treatAsDecimal == /\ fractionalLength > 0
                        /\ fractionalLength <= 2
                        /\ (separatorsCount = 1 \/ separator = ",")
      digitsOf(part) == SelectSeq(part, LAMBDA c : c \in DigitChars)
      integerPart == IF digitsOf(SubSeq(numeric, 1, separatorIndex - 1)) = <<>> THEN <<"0">>
                     ELSE digitsOf(SubSeq(numeric, 1, separatorIndex - 1))
      fractionalPart == digitsOf(SubSeq(numeric, separatorIndex + 1, Len(numeric)))
  IN IF trimmed = <<>> THEN <<>>
     ELSE IF kept = <<>> THEN <<>>
     ELSE IF hasComma /\ hasDot
          THEN IF lastIndexOf(numeric, ",") > lastIndexOf(numeric, ".")
               THEN Signed(negative, replaceFirst(replace(numeric, ".", <<>>), ",", <<".">>))
               ELSE Signed(negative, replace(numeric, ",", <<>>))
     ELSE IF separatorIndex = 0 THEN Signed(negative, numeric)
     ELSE IF treatAsDecimal
          THEN IF fractionalPart = <<>> THEN Signed(negative, integerPart)
               ELSE Signed(negative, integerPart \o <<".">> \o fractionalPart)
     ELSE Signed(negative, replace(numeric, separator, <<>>))

\* the digits without the zeros in front, "0" when nothing is left
RECURSIVE WithoutLeadingZeros(_)
WithoutLeadingZeros(digits) ==
  IF digits = <<>> THEN <<"0">>
  ELSE IF Head(digits) = "0" THEN WithoutLeadingZeros(Tail(digits))
  ELSE digits

\* Number(string) for a text of sanitizeNumberString: the decimal that the
\* text writes, NaN when the text is not a decimal literal. The fraction
\* is kept to three digits, which is all that an amount has.
Number(string) ==
  LET negative == string # <<>> /\ Head(string) = "-"
      unsigned == IF negative THEN Tail(string) ELSE string
      point == lastIndexOf(unsigned, ".")
      integer == IF point = 0 THEN unsigned ELSE SubSeq(unsigned, 1, point - 1)
      fraction == IF point = 0 THEN <<>> ELSE SubSeq(unsigned, point + 1, Len(unsigned))
      isDigits(part) == \A i \in 1..Len(part) : part[i] \in DigitChars
  IN IF integer \o fraction = <<>> \/ ~isDigits(integer) \/ ~isDigits(fraction) THEN NaN
     ELSE Decimal(negative, WithoutLeadingZeros(integer),
                  SubSeq(fraction \o <<"0", "0", "0">>, 1, 3))

Zero == Decimal(FALSE, <<"0">>, <<"0", "0", "0">>)

\* index.js:867-874  for a value that is a string
parseAmountNumber(value) ==
  LET sanitized == sanitizeNumberString(value)
  IN IF sanitized = <<>> THEN Zero
     ELSE IF Number(sanitized) = NaN THEN Zero
     ELSE Number(sanitized)

\* the amounts: integer parts of up to MaxDigits digits, fractions of up to
\* three digits, both signs
IntegerParts ==
  {<<"0">>} \union {digits \in SeqsUpTo({"0", "1", "9"}, MaxDigits) \ {<<>>} : Head(digits) # "0"}
Fractions == {<<a, b, c>> : a \in {"0", "9"}, b \in {"0", "5"}, c \in {"0", "5"}}
Amounts == {Decimal(negative, integer, fraction) : negative \in BOOLEAN, integer \in IntegerParts, fraction \in Fractions}
Locales == {"ru-RU", "en-US"}

InitAmount ==
  /\ ServerInit
  /\ \E amount \in Amounts, locale \in Locales :
       calc = Drawn("amount", [amount |-> amount, locale |-> locale])

\* an amount is rendered, and the text is parsed
RenderAndParse ==
  /\ calc.fn = "amount" /\ ~calc.done
  /\ Applied([formatted |-> formatCurrencyKzt(calc.in.amount, calc.in.locale),
              parsed |-> parseAmountNumber(formatCurrencyKzt(calc.in.amount, calc.in.locale))])

SpecAmount == InitAmount /\ [][RenderAndParse]_vars

\* ---- one call of convertPdfToJson, step by step ----
\* The call of the handler for one PDF is kept in calc.out: where the call
\* is, the value of Date.now() at the last write of a temporary file, the
\* path of the temporary file of the invocation that runs, the temporary
\* files that exist, and how the promise settled.
NoPath == 0

\* the values of Date.now() while one call runs: the retry through an
\* alternative script path writes its file in the same millisecond as the
\* first invocation, or later
Clock == 1..2

NotCalled ==
  [pc |-> "idle", now |-> 1, tempPdfPath |-> NoPath, temp |-> {},
   customPdfServicePath |-> FALSE, result |-> "none"]

\* pdfConverter.js:33-35  USE_PDF_SERVICE_HTTP, and what the extractor and
\* the file system of the deployment do: the script app/cli.py is at the
\* configured path, at one of the alternative paths only, or nowhere
Transports == {"python", "http"}
ScriptPlaces == {"configured", "alternative", "missing"}
PythonBehaviours ==
  {"converted", "no_credit_rows", "exit_code", "unparseable", "spawn_error",
   "never_terminates"}
HttpBehaviours == {"converted", "http_204", "http_error", "never_terminates"}
Deployments ==
  {[transport |-> "python", script |-> place, extractor |-> behaviour] :
     place \in ScriptPlaces, behaviour \in PythonBehaviours}
    \cup {[transport |-> "http", script |-> "configured", extractor |-> behaviour] :
            behaviour \in HttpBehaviours}

InitExtractor ==
  /\ ServerInit
  /\ \E deployment \in Deployments :
       calc = [fn |-> "extract", in |-> deployment, done |-> FALSE, out |-> NotCalled]

Called(call) ==
  /\ calc' = [calc EXCEPT !.out = call, !.done = call.pc = "settled"]
  /\ UNCHANGED <<activeAnalysisSessions, reports, slot, reader, seen,
                 conversation>>

\* the request with one PDF arrives
PostPdf ==
  /\ calc.fn = "extract"
  /\ PostArrive("r1", "s1", 1, FALSE)

\* pdfConverter.js:81-94  convertPdfToJsonViaPython writes the PDF to
\* temp/pdf_${Date.now()}_${filename}
WriteTempPdf(now) ==
  /\ calc.fn = "extract" /\ calc.in.transport = "python"
  /\ slot["r1"].hpc = "ingest"
  /\ calc.out.pc \in {"idle", "retry"}
  /\ now >= calc.out.now
  /\ Called([calc.out EXCEPT !.pc = "written", !.now = now,
                              !.tempPdfPath = now, !.temp = @ \cup {now}])

\* pdfConverter.js:96-131 and 282-292  the script is looked for. When it
\* is only at an alternative path, the function returns the promise of a
\* second invocation of itself and is done; when it is nowhere, the error
\* is caught, the temporary file of this invocation is deleted and the
\* error is thrown again.
FindScript ==
  /\ calc.fn = "extract" /\ calc.out.pc = "written"
  /\ IF calc.in.script = "configured" \/ calc.out.customPdfServicePath
     THEN Called([calc.out EXCEPT !.pc = "running"])
     ELSE IF calc.in.script = "alternative"
     THEN Called([calc.out EXCEPT !.pc = "retry", !.tempPdfPath = NoPath,
                                  !.customPdfServicePath = TRUE])
     ELSE Called([calc.out EXCEPT !.pc = "settled", !.result = "rejected",
                                  !.temp = @ \ {calc.out.tempPdfPath},
                                  !.tempPdfPath = NoPath])

\* pdfConverter.js:165-252  the process has ended and its streams are
\* closed: the temporary file of this invocation is deleted, then the
\* promise resolves or rejects
PythonClose ==
  /\ calc.fn = "extract" /\ calc.out.pc = "running"
  /\ calc.in.extractor \in {"converted", "no_credit_rows", "exit_code", "unparseable"}
  /\ Called([calc.out EXCEPT
               !.pc = "settled",
               !.temp = @ \ {calc.out.tempPdfPath},
               !.tempPdfPath = NoPath,
               !.result = IF calc.in.extractor \in {"converted", "no_credit_rows"}
                          THEN calc.in.extractor ELSE "rejected"])

\* pdfConverter.js:254-263  the process could not be started
PythonError ==
  /\ calc.fn = "extract" /\ calc.out.pc = "running"
  /\ calc.in.extractor = "spawn_error"
  /\ Called([calc.out EXCEPT !.pc = "settled", !.result = "rejected",
                              !.temp = @ \ {calc.out.tempPdfPath},
                              !.tempPdfPath = NoPath])

\* pdfConverter.js:44-60  convertPdfToJsonViaHttp posts the PDF with
\* timeout: 300000
HttpPost ==
  /\ calc.fn = "extract" /\ calc.in.transport = "http"
  /\ slot["r1"].hpc = "ingest"
  /\ calc.out.pc = "idle"
  /\ Called([calc.out EXCEPT !.pc = "requested"])

\* pdfConverter.js:62-75  the endpoint answers: 204, the JSON, or an error
HttpResponse ==
  /\ calc.fn = "extract" /\ calc.out.pc = "requested"
  /\ calc.in.extractor # "never_terminates"
  /\ Called([calc.out EXCEPT
               !.pc = "settled",
               !.result = IF calc.in.extractor = "http_error" THEN "rejected"
                          ELSE calc.in.extractor])

\* pdfConverter.js:57 and 68-75  no answer within the five minutes: the
\* request is aborted and the error is thrown
HttpTimeout ==
  /\ calc.fn = "extract" /\ calc.out.pc = "requested"
  /\ Called([calc.out EXCEPT !.pc = "settled", !.result = "rejected"])

\* what the extractor does with the file, when the promise has settled
OutcomeOf(result) ==
  CASE result = "converted" -> Converted(<<TxTopUp>>)
    [] result = "no_credit_rows" -> NoCreditRows
    [] result = "http_204" -> Http204
    [] OTHER -> Failure("exit_code")

\* pdfConverter.js:297-324 and index.js:1777-2252  the promise has
\* settled: convertPdfsToJson returns the entries of the file, or the entry
\* of its error, and the handler goes on
IngestConverted ==
  /\ calc.fn = "extract" /\ calc.out.pc = "settled"
  /\ LET pdfFiles == <<[filename |-> 1, outcome |-> OutcomeOf(calc.out.result)]>>
     IN Ingest("r1", allTransactions(convertPdfsToJson(pdfFiles).entries), TRUE)

\* the steps of the call, from the first write or the request to the
\* settling of the promise
ConverterStep ==
  \/ \E now \in Clock : WriteTempPdf(now)
  \/ FindScript
  \/ PythonClose
  \/ PythonError
  \/ HttpPost
  \/ HttpResponse
  \/ HttpTimeout

\* one submission of one PDF, with every behaviour of the extractor, a
\* database that works and a classifier run that returns or throws
NextExtractor ==
  \/ PostPdf
  \/ ConverterStep
  \/ IngestConverted
  \/ HandlerProgress("r1", TRUE)
  \/ TaskStep("r1")

\* every step of the converter that can be taken is taken eventually: its
\* own, those of its timer and those of an extractor that terminates
SpecExtractor ==
  InitExtractor /\ [][NextExtractor]_vars /\ WF_vars(ConverterStep)

\* ---- the stdout of the extractor process ----
\* The stdout is a sequence of pieces: the brackets "[", "]", "{" and "}",
\* "n" for a scalar element or member with its commas, "k" for the key and
\* the colon of a member whose value is an array or an object, "nl" for a
\* line break, "log" for the text of a log line, which has no bracket, and
\* "no_credit_rows" for the text 'No credit rows found'.
MaxDepth == 2

\* String.prototype.trim
RECURSIVE trimStart(_)
trimStart(string) ==
  IF string # <<>> /\ Head(string) = "nl" THEN trimStart(Tail(string)) ELSE string

RECURSIVE trimEnd(_)
trimEnd(string) ==
  IF string # <<>> /\ string[Len(string)] = "nl"
  THEN trimEnd(SubSeq(string, 1, Len(string) - 1))
  ELSE string

trim(string) == trimEnd(trimStart(string))

\* JSON.parse reads the pieces from the left: `open` are the brackets that
\* are open, keyed says that a key waits for its value, closed that the
\* value of the text is complete
RECURSIVE IsJsonFrom(_, _, _, _)
IsJsonFrom(string, open, keyed, closed) ==
  IF string = <<>> THEN closed
  ELSE LET piece == Head(string)
           rest == Tail(string)
           top == IF open = <<>> THEN "none" ELSE open[Len(open)]
           popped == SubSeq(open, 1, Len(open) - 1)
       IN CASE piece = "nl" -> IsJsonFrom(rest, open, keyed, closed)
            [] piece \in {"[", "{"} ->
                 /\ ~closed
                 /\ (open = <<>> \/ top = "[" \/ keyed)
                 /\ IsJsonFrom(rest, Append(open, piece), FALSE, FALSE)
            [] piece = "]" ->
                 /\ top = "[" /\ ~keyed
                 /\ IsJsonFrom(rest, popped, FALSE, popped = <<>>)
            [] piece = "}" ->
                 /\ top = "{" /\ ~keyed
                 /\ IsJsonFrom(rest, popped, FALSE, popped = <<>>)
            [] piece = "n" ->
                 /\ open # <<>> /\ ~keyed
                 /\ IsJsonFrom(rest, open, FALSE, FALSE)
            [] piece = "k" ->
                 /\ top = "{" /\ ~keyed
                 /\ IsJsonFrom(rest, open, TRUE, FALSE)
            [] OTHER -> FALSE

SyntaxError == <<"SyntaxError">>

\* JSON.parse: the value of the text, written without its white space, or
\* the error
JSONparse(string) ==
  IF IsJsonFrom(string, <<>>, FALSE, FALSE)
  THEN SelectSeq(string, LAMBDA piece : piece # "nl")
  ELSE SyntaxError

Resolved(value) == [settled |-> "resolved", value |-> value]
Rejected == [settled |-> "rejected", value |-> <<>>]

\* pdfConverter.js:180-193 and 242-248  the entry of a file without credit
\* rows
NoCreditEntry == <<"[", "{", "n", "k", "[", "]", "}", "]">>

\* pdfConverter.js:250  Array.isArray(result) ? result : [result]
Wrapped(result) ==
  IF Head(result) = "[" THEN result ELSE <<"[">> \o result \o <<"]">>

\* pdfConverter.js:179-251  the 'close' handler for the exit code 0: what
\* the promise settles with for the stdout. Indexes count from 1, so the
\* source's tests `> 0` read `> 1` here.
parseStdout(stdout) ==
  LET stdoutTrimmed == trim(stdout)
      jsonStartIndex == Max(lastIndexOf(stdoutTrimmed, "["),
                            lastIndexOf(stdoutTrimmed, "{"))
      extractedJson == SubSeq(stdoutTrimmed, jsonStartIndex, Len(stdoutTrimmed))
      closing == IF Head(extractedJson) = "[" THEN "]" ELSE "}"
      jsonEndIndex == IF lastIndexOf(extractedJson, closing) > 1
                      THEN lastIndexOf(extractedJson, closing)
                      ELSE Len(extractedJson)
      jsonString == IF jsonStartIndex > 1
                    THEN SubSeq(extractedJson, 1, jsonEndIndex)
                    ELSE stdoutTrimmed
  IN IF stdoutTrimmed = <<>> \/ includes(stdoutTrimmed, "no_credit_rows")
     THEN Resolved(NoCreditEntry)
     ELSE IF JSONparse(jsonString) = SyntaxError THEN Rejected
     ELSE Resolved(Wrapped(JSONparse(jsonString)))

\* the texts of JSON arrays and objects, nested up to the depth
RECURSIVE JsonTexts(_)
JsonTexts(depth) ==
  IF depth = 0
  THEN {<<"[", "]">>, <<"{", "}">>, <<"[", "n", "]">>, <<"{", "n", "}">>}
  ELSE JsonTexts(depth - 1)
         \cup {<<"[">> \o v \o <<"]">> : v \in JsonTexts(depth - 1)}
         \cup {<<"[">> \o v \o <<"n", "]">> : v \in JsonTexts(depth - 1)}
         \cup {<<"{", "n", "k">> \o v \o <<"}">> : v \in JsonTexts(depth - 1)}

\* the lines before and after the JSON
LogLines == {<<>>, <<"log", "nl">>, <<"log", "nl", "log", "nl">>}

InitStdout ==
  /\ ServerInit
  /\ \E before \in LogLines, json \in JsonTexts(MaxDepth), after \in LogLines :
       calc = Drawn("stdout", [before |-> before, json |-> json, after |-> after])

\* the process has printed its lines and exited with the code 0
ParseStdout ==
  /\ calc.fn = "stdout" /\ ~calc.done
  /\ Applied(parseStdout(calc.in.before \o calc.in.json \o <<"nl">> \o calc.in.after))

SpecStdout == InitStdout /\ [][ParseStdout]_vars

\* ---- the shutdown of the process ----
\* The process is kept in calc.out: the signals it has handled, whether
\* the 'close' event of the HTTP server was emitted, where the close of the
\* database is, and the code it has exited with.
MaxSignals == 2

Serving ==
  [signals |-> 0, serverClosed |-> FALSE, db |-> "open", exit |-> "none"]

\* index.js:140-146 and 2573-2575  the database object of the process: it
\* was never created or has no close function, or its close returns,
\* throws, or never returns
DbCloses == {"none", "returns", "throws", "never_returns"}

InitShutdown ==
  /\ ServerInit
  /\ \E dbClose \in DbCloses :
       calc = [fn |-> "shutdown", in |-> dbClose, done |-> FALSE, out |-> Serving]

Alive == calc.fn = "shutdown" /\ calc.out.exit = "none"
Accepting == Alive /\ calc.out.signals = 0

\* a request whose handler has not responded yet
InFlight(r) == slot[r].hpc \in {"ingest", "progress", "catch_upsert"}

Process(state) ==
  /\ calc' = [calc EXCEPT !.out = state, !.done = state.exit # "none"]
  /\ UNCHANGED <<activeAnalysisSessions, reports, slot, reader, seen,
                 conversation>>

\* index.js:2560-2563, 2587-2598  SIGTERM, SIGINT or an uncaught exception:
\* gracefulShutdown calls server.close with its callback, so that the
\* server accepts no new connection, and sets the timer of 10 seconds
gracefulShutdown ==
  /\ Alive
  /\ calc.out.signals < MaxSignals
  /\ Process([calc.out EXCEPT !.signals = @ + 1])

\* index.js:2563-2583  the last connection has ended and the server emits
\* 'close'. The callback of the first call runs: without a database to
\* close it exits with 0, otherwise it awaits the close of the database.
\* The callback of a second call was registered on a server that was not
\* running any more, gets the error and exits with 1.
ServerClose ==
  /\ Alive
  /\ calc.out.signals > 0
  /\ ~calc.out.serverClosed
  /\ \A r \in Slots : ~InFlight(r)
  /\ IF calc.in = "none"
     THEN Process([calc.out EXCEPT !.serverClosed = TRUE, !.exit = "0"])
     ELSE IF calc.out.signals > 1
     THEN Process([calc.out EXCEPT !.serverClosed = TRUE, !.db = "closing",
                                   !.exit = "1"])
     ELSE Process([calc.out EXCEPT !.serverClosed = TRUE, !.db = "closing"])

\* index.js:2575-2583  the close of the database returns or throws; the
\* error is logged, and the process exits with 0
DbCloseSettles ==
  /\ Alive
  /\ calc.out.db = "closing"
  /\ calc.in \in {"returns", "throws"}
  /\ Process([calc.out EXCEPT
                !.db = IF calc.in = "returns" THEN "closed" ELSE "failed",
                !.exit = "0"])

\* a shutdown that set no timer: nothing ends the process by force
ShutdownTimer_unarmed ==
  /\ Alive
  /\ calc.out.signals > MaxSignals
  /\ Process([calc.out EXCEPT !.exit = "1"])

\* index.js:2586-2590  the timer of 10 seconds fires
ShutdownTimer ==
  /\ Alive
  /\ calc.out.signals > 0
  /\ Process([calc.out EXCEPT !.exit = "1"])

ShutdownStep == ServerClose \/ DbCloseSettles \/ ShutdownTimer

\* the process from its start to its exit: submissions while it accepts
\* connections, handlers and tasks as long as it lives, signals, and the
\* steps of the shutdown
NextShutdown ==
  \/ Accepting /\ PostArrive("r1", "s1", 1, FALSE)
  \/ Alive /\ \E txs \in FewTxLists : Ingest("r1", txs, TRUE)
  \/ Alive /\ HandlerProgress("r1", TRUE)
  \/ Alive /\ \E text \in FewTexts("s1") : LlmReturn("r1", text, <<>>)
  \/ Alive /\ TaskFinalUpsert("r1", TRUE)
  \/ gracefulShutdown
  \/ ShutdownStep

\* the timer fires when it is due and the events of the server and of the
\* database are handled when they come; no handler has to finish
SpecShutdown == InitShutdown /\ [][NextShutdown]_vars /\ WF_vars(ShutdownStep)

\* a batch of PDFs: every file with what the extractor does with it
FileOutcomes ==
  {Converted(txs) : txs \in {<<>>, <<TxRevenue>>, <<TxTopUp>>}}
    \cup {NoCreditRows, Http204}
    \cup {Failure(kind) : kind \in FailureKinds}
Batches ==
  UNION {{[i \in 1..n |-> [filename |-> i, outcome |-> outcomes[i]]] :
            outcomes \in [1..n -> FileOutcomes]} : n \in 1..MaxBatch}

InitBatch == ServerInit /\ \E pdfFiles \in Batches : calc = Drawn("convert", pdfFiles)

\* the batch is posted
PostBatch ==
  /\ calc.fn = "convert"
  /\ PostArrive("r1", "s1", Len(calc.in), FALSE)

\* index.js:1777-1846  the handler converts the batch and collects the
\* transactions of the results
IngestBatch ==
  /\ calc.fn = "convert"
  /\ LET jsonResults == convertPdfsToJson(calc.in)
     IN /\ ~jsonResults.threw
        /\ Ingest("r1", allTransactions(jsonResults.entries), TRUE)

\* one submission of a batch of PDFs whose files each convert or fail, with
\* a database and a classifier that work
NextBatch ==
  \/ PostBatch
  \/ IngestBatch
  \/ HandlerProgress("r1", TRUE)
  \/ \E text \in FewTexts("s1") : LlmReturn("r1", text, <<>>)
  \/ TaskFinalUpsert("r1", TRUE)

SpecBatch == InitBatch /\ [][NextBatch]_vars

\* the final transactions of a report: with and without an amount, without
\* a date, dated before the year 2000, dated around the start of a
\* twelve-month window, and dated later than three days after the clock
SummaryDates ==
  {NoDate, DateOf(1999, 11, 20, 0), DateOf(2024, 2, 20, 0),
   DateOf(2024, 3, 1, 9), DateOf(2025, 2, 15, 14), DateOf(2025, 6, 1, 0)}
SummaryAmounts == {1, 2, 7}
SummaryTxPool ==
  {Tx(NoId, date, amount, {"other"}, {}) :
     date \in SummaryDates, amount \in SummaryAmounts}
    \cup {Tx(NoId, DateOf(2025, 2, 15, 14), 0, {"other"}, {})}
SummaryNonRevenue == {<<>>, <<Tx(NoId, NoDate, 2, {"other"}, {})>>}

\* index.js:2181-2191  the statistics of a run in which the agent decided
\* every non-revenue transaction
SummaryStats(revenue, nonRevenue) ==
  [totalTransactions |-> Len(revenue) + Len(nonRevenue),
   autoRevenue |-> Len(revenue),
   agentReviewed |-> Len(nonRevenue),
   agentDecisions |-> Len(nonRevenue),
   unresolved |-> 0]

\* the lists reach buildStructuredSummary sorted by date
InitSummary ==
  /\ ServerInit
  /\ \E list \in SeqsUpTo(SummaryTxPool, MaxSummaryTx) :
       \E nonRevenue \in SummaryNonRevenue :
         calc = Drawn("summary", [revenue |-> SortByDate(list),
                                  nonRevenue |-> SortByDate(nonRevenue)])

Summarize ==
  /\ calc.fn = "summary" /\ ~calc.done
  /\ Applied(buildStructuredSummary(calc.in.revenue, calc.in.nonRevenue,
               SummaryStats(calc.in.revenue, calc.in.nonRevenue)))

SpecSummary == InitSummary /\ [][Summarize]_vars

\* the payloads of upsertReport: every field but the number of files is
\* null or holds a value
UpsertPayloads ==
  {Payload(status, reportText, reportStructured, Num(1), filesData,
           completed, comment, openaiResponseId, openaiStatus) :
     status \in {"generating", "completed"},
     reportText \in {NULL, Str("report")},
     reportStructured \in {NULL, Str("summary")},
     filesData \in {NULL, filesDataJson(1)},
     completed \in {NULL, Timestamp},
     comment \in {NULL, Str("comment")},
     openaiResponseId \in {NULL, Str("resp")},
     openaiStatus \in {NULL, Str("completed")}}

InitUpsert ==
  /\ ServerInit
  /\ \E first \in UpsertPayloads, second \in UpsertPayloads :
       calc = Drawn("upsert", [first |-> first, second |-> second])

\* index.js:1656-1699  two consecutive calls of upsertReport for a session
\* without a row, each with a statement that succeeds
UpsertTwice ==
  /\ calc.fn = "upsert" /\ ~calc.done
  /\ LET first == upsertReport(NoRow, calc.in.first)
     IN Applied([first |-> first,
                 second |-> upsertReport(first, calc.in.second)])

SpecUpsert == InitUpsert /\ [][UpsertTwice]_vars

\* ------------------------------------------------------------------------
\* Properties
\* ------------------------------------------------------------------------
TaskRunning(r) == slot[r].tpc \in {"llm", "final_upsert", "fail_upsert"}
HandlerRunning(r) == slot[r].hpc \in {"ingest", "progress", "catch_upsert"}
TasksOf(s) == {r \in Slots : slot[r].sessionId = s /\ TaskRunning(r)}
NothingInProgress(s) ==
  \A r \in Slots :
    slot[r].sessionId = s => ~TaskRunning(r) /\ ~HandlerRunning(r)
\* this step is the arrival of a POST /api/analysis in slot r
Arrives(r) == slot[r].hpc = "idle" /\ slot'[r].hpc # "idle"

AtMostOneTask == \A s \in Sessions : Cardinality(TasksOf(s)) <= 1

\* C1: at most one background task runs for a session id at any instant,
\* and a POST that arrives for a session while one of its tasks is running
\* is answered 409.
C1_DedupSafety ==
  [][/\ AtMostOneTask'
     /\ \A r \in Slots :
          Arrives(r) /\ TasksOf(slot'[r].sessionId) # {}
            => slot'[r].response = 409]_vars

\* C2: the statuses a reader is answered for a session form a prefix of
\* generating -> (completed | failed): once a reader was answered completed
\* or failed, it is never answered another status for that session.
C2_MonotonicStatus ==
  [][\A o \in Observers, s \in Sessions :
       seen[o][s].status \in {"completed", "failed"} =>
         seen'[o][s].status = seen[o][s].status]_vars

\* C3: whenever no POST handler and no background task of a session is in
\* progress, the session is not in activeAnalysisSessions.
C3_ClaimReleased ==
  \A s \in Sessions : NothingInProgress(s) => s \notin activeAnalysisSessions

\* C4: once a background task of a session has ended and nothing is in
\* progress for the session, a POST for it that carries a file is not
\* answered 409 and starts a new analysis.
C4_AcceptedAfterEnd ==
  [][\A r \in Slots :
       LET s == slot'[r].sessionId
       IN /\ Arrives(r)
          /\ slot'[r].filesCount > 0
          /\ NothingInProgress(s)
          /\ \E q \in Slots : slot[q].sessionId = s /\ slot[q].tpc = "done"
          => slot'[r].response # 409 /\ slot'[r].hpc = "ingest"]_vars

\* this step is the end of the background task in slot r after its
\* classifier run threw
EndsAfterRaise(r) ==
  slot[r].text = Raised /\ slot[r].tpc = "fail_upsert" /\ slot'[r].tpc = "done"

FailureRecorded(row) ==
  /\ row # NoRow
  /\ row.status = "failed"
  /\ row.openai_status = Str("failed")
  /\ row.report_text = Str("classifier error")

C6_EventuallySettled ==
  \A r \in Slots : (slot[r].response = 202) ~> slot[r].settled

\* a submission was answered 202 and its task ended with a terminal status
\* stored and the claim released
C6_Witness ==
  \E r \in Slots :
    slot[r].response = 202 /\ slot[r].tpc = "done" /\ slot[r].settled

\* ---- one run: the classification of a submission's transactions ----
InList(list, x) == \E j \in 1..Len(list) : list[j] = x
Count(list, x) == Cardinality({j \in 1..Len(list) : list[j] = x})

\* the transaction as it was before it carried a classification
Strip(t) ==
  [id |-> t.id, date |-> t.date, amount |-> t.amount, purpose |-> t.purpose,
   sender |-> t.sender, ikap_tx_id |-> t.ikap_tx_id]

Stripped(list) == [j \in 1..Len(list) |-> Strip(list[j])]

\* the background task in slot r has computed its final report
HasFinalReport(r) ==
  slot[r].tpc \in {"final_upsert", "done"} /\ slot[r].payload.status = "completed"

\* the background task in slot r has stored its final report
Stored(r) == slot[r].tpc = "done" /\ slot[r].payload.status = "completed"

\* the classifier's answer holds an entry with the id of transaction t
EntriesFor(r, t) ==
  {k \in 1..Len(slot[r].text.entries) :
     /\ slot[r].text.kind \in {"array", "object"}
     /\ slot[r].text.entries[k].id # NoId
     /\ slot[r].text.entries[k].id.v = t.ikap_tx_id.v}

Decided(r) ==
  {i \in 1..Len(slot[r].needsReview) : EntriesFor(r, slot[r].needsReview[i]) # {}}

\* C7: when the task finalizes with status completed, the stored
\* openai_status is skipped iff nothing needed review, completed iff every
\* needs-review transaction received a decision, and partial iff at least
\* one but not all of them received a decision.
C7_OpenaiStatus ==
  \A r \in Slots :
    Stored(r) =>
      LET stored == reports[slot[r].sessionId].openai_status
          n == Len(slot[r].needsReview)
          d == Cardinality(Decided(r))
      IN /\ stored = Str("skipped") <=> n = 0
         /\ stored = Str("completed") <=> n > 0 /\ d = n
         /\ stored = Str("partial") <=> d > 0 /\ d < n

\* the source a needs-review transaction carries in the final lists
WithSource(t, source) ==
  Classified(t, source, t.ikap_possible_non_revenue)

\* C8: a needs-review transaction for whose id the classifier's answer
\* holds an entry is placed, with source agent, in revenue or non-revenue
\* according to the is_revenue of such an entry; one without an entry (its
\* id is omitted, or the answer is empty or unparseable) is placed in
\* non-revenue with source agent_missing; and the run is completed, not
\* failed.
C8_DecisionsFolded ==
  \A r \in Slots :
    slot[r].tpc \in {"final_upsert", "done"} /\ slot[r].text # Raised =>
      /\ slot[r].payload.status = "completed"
      /\ slot[r].tpc = "done" => reports[slot[r].sessionId].status = "completed"
      /\ \A i \in 1..Len(slot[r].needsReview) :
           LET t == slot[r].needsReview[i]
               revenue == slot[r].finalRevenueTransactions
               nonRevenue == slot[r].finalNonRevenueTransactions
           IN IF EntriesFor(r, t) # {}
              THEN \E k \in EntriesFor(r, t) :
                     IF slot[r].text.entries[k].is_revenue = "true"
                     THEN /\ InList(revenue, WithSource(t, "agent"))
                          /\ ~InList(Stripped(nonRevenue), Strip(t))
                     ELSE /\ InList(nonRevenue, WithSource(t, "agent"))
                          /\ ~InList(Stripped(revenue), Strip(t))
              ELSE /\ InList(nonRevenue, WithSource(t, "agent_missing"))
                   /\ ~InList(Stripped(revenue), Strip(t))

\* a stored run with a transaction the agent decided to be revenue and one
\* the answer omitted
C8_Witness ==
  \E r \in Slots :
    /\ Stored(r)
    /\ \E i, j \in 1..Len(slot[r].needsReview) :
         /\ EntriesFor(r, slot[r].needsReview[i]) # {}
         /\ InList(slot[r].finalRevenueTransactions,
                   WithSource(slot[r].needsReview[i], "agent"))
         /\ EntriesFor(r, slot[r].needsReview[j]) = {}
         /\ InList(slot[r].finalNonRevenueTransactions,
                   WithSource(slot[r].needsReview[j], "agent_missing"))

\* the rule of the keyword heuristic for revenue: a revenue marker in the
\* purpose and no terminal-deposit or other non-revenue marker in purpose
\* or sender
RevenueByRule(t) ==
  /\ "revenue" \in t.purpose
  /\ "terminal" \notin t.purpose \cup t.sender
  /\ "non_revenue" \notin t.purpose \cup t.sender

\* the rule of the keyword heuristic for non-revenue
NonRevenueByRule(t) ==
  /\ t.purpose \cup t.sender # {}
  /\ \/ "terminal" \in t.purpose \cup t.sender
     \/ "non_revenue" \in t.purpose \cup t.sender

StatsOf(r) == slot[r].payload.reportStructured[2]

\* C9: in a finalized report every extracted transaction is in exactly one
\* of the final revenue and non-revenue lists, so that their lengths add up
\* to stats.totalTransactions; a transaction with source heuristic is
\* revenue by the keyword heuristic, and a transaction with source agent
\* came from the needs-review set.
C9_ClassificationClosure ==
  \A r \in Slots :
    HasFinalReport(r) =>
      LET revenue == slot[r].finalRevenueTransactions
          nonRevenue == slot[r].finalNonRevenueTransactions
          all == slot[r].transactionsWithIds
          final == revenue \o nonRevenue
      IN /\ \A i \in 1..Len(all) :
              /\ Count(all, all[i])
                   = Count(Stripped(revenue), all[i])
                       + Count(Stripped(nonRevenue), all[i])
              /\ ~(InList(Stripped(revenue), all[i])
                     /\ InList(Stripped(nonRevenue), all[i]))
         /\ Len(revenue) + Len(nonRevenue) = StatsOf(r).totalTransactions
         /\ StatsOf(r).totalTransactions = Len(all)
         /\ \A j \in 1..Len(final) :
              /\ InList(all, Strip(final[j]))
              /\ final[j].ikap_classification_source = "heuristic"
                   => RevenueByRule(final[j]) /\ j <= Len(revenue)
              /\ final[j].ikap_classification_source = "agent"
                   => /\ InList(Stripped(slot[r].needsReview), Strip(final[j]))
                      /\ ~RevenueByRule(final[j])

\* a finalized report with a heuristic revenue transaction and a reviewed
\* transaction the agent decided to be non-revenue
C9_Witness ==
  \E r \in Slots :
    /\ HasFinalReport(r)
    /\ \E i \in 1..Len(slot[r].finalRevenueTransactions) :
         slot[r].finalRevenueTransactions[i].ikap_classification_source
           = "heuristic"
    /\ \E j \in 1..Len(slot[r].finalNonRevenueTransactions) :
         slot[r].finalNonRevenueTransactions[j].ikap_classification_source
           = "agent"

\* C10: a transaction the keyword heuristic classifies as non-revenue is
\* not in the set sent to the classifier and ends in the final non-revenue
\* list whatever the classifier answers; the classifier is invoked only
\* with transactions the heuristic classified as ambiguous, and
\* stats.agentReviewed counts only those.
C10_NonRevenueNotReviewed ==
  \A r \in Slots :
    /\ \A i \in 1..Len(slot[r].needsReview) :
         ~NonRevenueByRule(slot[r].needsReview[i])
    /\ HasFinalReport(r) =>
         /\ \A i \in 1..Len(slot[r].transactionsWithIds) :
              NonRevenueByRule(slot[r].transactionsWithIds[i])
                => /\ InList(Stripped(slot[r].finalNonRevenueTransactions),
                             slot[r].transactionsWithIds[i])
                   /\ ~InList(Stripped(slot[r].finalRevenueTransactions),
                              slot[r].transactionsWithIds[i])
         /\ StatsOf(r).agentReviewed
              = Cardinality({i \in 1..Len(slot[r].transactionsWithIds) :
                   /\ ~NonRevenueByRule(slot[r].transactionsWithIds[i])
                   /\ ~RevenueByRule(slot[r].transactionsWithIds[i])})

\* ---- the keyword heuristic on its own ----
HasMarker(keywordClass, transaction) ==
  keywordClass \in transaction.purpose \cup transaction.sender

\* the priority of the rules as the claim states it
ByPriority(transaction) ==
  IF transaction.purpose = {} /\ transaction.sender = {} THEN "ambiguous"
  ELSE IF HasMarker("terminal", transaction) THEN "non_revenue"
  ELSE IF HasMarker("non_revenue", transaction) THEN "non_revenue"
  ELSE IF "revenue" \in transaction.purpose THEN "revenue"
  ELSE "ambiguous"

\* C11: for every combination of markers in purpose and sender the
\* heuristic answers by fixed priority: both texts empty is ambiguous; else
\* a terminal-deposit marker in purpose or sender is non_revenue; else a
\* non-revenue marker in purpose or sender is non_revenue, also next to a
\* revenue marker; else a revenue marker in the purpose is revenue; else
\* ambiguous.
C11_HeuristicPriority ==
  Done("classify") => calc.out = ByPriority(calc.in)

\* ---- a batch of PDFs ----
FailedFile(file) == file.outcome.kind \in FailureKinds
EntriesOf(jsonResults, file) ==
  {k \in 1..Len(jsonResults) : jsonResults[k].source_file = file.filename}

\* the transactions of the files that were converted, in the order of the
\* files
RECURSIVE TransactionsOfConverted(_)
TransactionsOfConverted(pdfFiles) ==
  IF pdfFiles = <<>> THEN <<>>
  ELSE pdfFiles[1].outcome.transactions \o TransactionsOfConverted(Tail(pdfFiles))

\* C12: convertPdfsToJson does not throw; every file whose conversion
\* failed has exactly one entry, with its name, an error and no
\* transactions; every file that was converted keeps its entry with its
\* transactions, also after a file that failed; the submission works on
\* the transactions of all converted files and ends with status completed.
C12_BatchSurvivesFailures ==
  calc.fn = "convert" =>
    LET pdfFiles == calc.in
        jsonResults == convertPdfsToJson(pdfFiles)
        s == slot["r1"].sessionId
    IN /\ ~jsonResults.threw
       /\ \A i \in 1..Len(pdfFiles) :
            LET entries == EntriesOf(jsonResults.entries, pdfFiles[i])
            IN /\ FailedFile(pdfFiles[i]) =>
                    /\ Cardinality(entries) = 1
                    /\ \A k \in entries :
                         /\ jsonResults.entries[k].error # NULL
                         /\ jsonResults.entries[k].transactions = <<>>
               /\ pdfFiles[i].outcome.kind = "converted" =>
                    /\ Cardinality(entries) = 1
                    /\ \A k \in entries :
                         /\ jsonResults.entries[k].error = NULL
                         /\ jsonResults.entries[k].transactions
                              = pdfFiles[i].outcome.transactions
       /\ slot["r1"].hpc \in {"progress", "done"} /\ slot["r1"].response # 400 =>
            slot["r1"].transactionsWithIds
              = attachInternalTransactionIds(TransactionsOfConverted(pdfFiles), s)
       /\ slot["r1"].tpc = "done" =>
            /\ reports[s].status = "completed"
            /\ StatsOf("r1").totalTransactions
                 = Len(TransactionsOfConverted(pdfFiles))

\* a batch whose first file failed and whose second file was converted
\* ended with a completed report of the second file's transactions
C12_Witness ==
  /\ calc.fn = "convert"
  /\ Len(calc.in) = 2
  /\ FailedFile(calc.in[1])
  /\ calc.in[2].outcome.kind = "converted"
  /\ calc.in[2].outcome.transactions # <<>>
  /\ slot["r1"].tpc = "done"
  /\ reports["s1"].status = "completed"
  /\ StatsOf("r1").totalTransactions = 1

\* ---- a submission without transactions ----
SummaryOf(r) == slot[r].payload.reportStructured[3]

\* C13: a submission whose PDFs yield no transaction (among them the PDF
\* for which the extractor prints 'No credit rows found') never runs the
\* classifier and ends with status completed, empty revenue and
\* non-revenue year tables, totals of zero and openai_status skipped.
C13_EmptyCompletes ==
  calc.fn = "convert" /\ TransactionsOfConverted(calc.in) = <<>> =>
    /\ slot["r1"].tpc # "llm"
    /\ slot["r1"].tpc \in {"final_upsert", "done"} =>
         /\ slot["r1"].text = NoText
         /\ slot["r1"].payload.status = "completed"
         /\ slot["r1"].payload.openaiStatus = Str("skipped")
         /\ SummaryOf("r1").revenue.years = <<>>
         /\ SummaryOf("r1").nonRevenue.years = <<>>
         /\ SummaryOf("r1").totals.revenue.value = 0
         /\ SummaryOf("r1").totals.nonRevenue.value = 0
         /\ SummaryOf("r1").trailing12MonthsRevenue.value = 0
    /\ slot["r1"].tpc = "done" =>
         /\ reports["s1"].status = "completed"
         /\ reports["s1"].openai_status = Str("skipped")
         /\ reports["s1"].report_structured = slot["r1"].payload.reportStructured

\* a PDF without credit rows was submitted and its report is stored
C13_Witness ==
  /\ calc.fn = "convert"
  /\ \E i \in 1..Len(calc.in) : calc.in[i].outcome = NoCreditRows
  /\ TransactionsOfConverted(calc.in) = <<>>
  /\ slot["r1"].tpc = "done"
  /\ reports["s1"].status = "completed"
  /\ reports["s1"].openai_status = Str("skipped")

\* ---- the structured summary on its own ----
\* the date lies in the closed range from 2000-01-01 to three days after
\* the clock
InDateRange(t) ==
  t.date = NoDate \/ (t.date >= DateOf(2000, 0, 1, 0) /\ t.date <= maxAllowedDate)

\* C14: no transaction whose date is earlier than 2000-01-01 or later than
\* three days after the clock contributes to a year or month bucket of the
\* report, and its amount is part of the totals all the same.
C14_DateRange ==
  Done("summary") =>
    /\ calc.out.revenue.years
         = aggregateByYearMonth(SelectSeq(calc.in.revenue, InDateRange))
    /\ calc.out.nonRevenue.years
         = aggregateByYearMonth(SelectSeq(calc.in.nonRevenue, InDateRange))
    /\ calc.out.totals.revenue.value = SumAmounts(calc.in.revenue)
    /\ calc.out.totals.nonRevenue.value = SumAmounts(calc.in.nonRevenue)

HasAmountAndDate(t) == t.amount # 0 /\ t.date # NoDate

\* the sum of the amounts of the dated revenue transactions from 00:00 UTC
\* on the first day of the month eleven months before the month of the
\* latest date up to the latest date
TrailingByClaim(revenue) ==
  LET dated == SelectSeq(revenue, HasAmountAndDate)
  IN IF dated = <<>> THEN 0
     ELSE LET referenceDate ==
                CHOOSE d \in {dated[i].date : i \in 1..Len(dated)} :
                  \A i \in 1..Len(dated) : dated[i].date <= d
              months == getUTCFullYear(referenceDate) * 12
                          + getUTCMonth(referenceDate) - 11
              from == DateOf(months \div 12, months % 12, 1, 0)
              inWindow(t) == t.date >= from /\ t.date <= referenceDate
          IN SumAmounts(SelectSeq(dated, inWindow))

\* C15: trailing12MonthsRevenue.value is the sum of the amounts of the
\* dated revenue transactions whose date lies between 00:00 UTC on the
\* first day of the month eleven months before the reference month and
\* the reference date, the latest date of a revenue transaction.
C15_Trailing12Months ==
  Done("summary") =>
    calc.out.trailing12MonthsRevenue.value = TrailingByClaim(calc.in.revenue)

\* C16: totals.revenue.value is the sum of the amounts of all final
\* revenue transactions, totals.nonRevenue.value that of all final
\* non-revenue transactions, and with amounts that are not negative the
\* sum of the year buckets does not exceed the total.
C16_Totals ==
  Done("summary") =>
    /\ calc.out.totals.revenue.value = SumAmounts(calc.in.revenue)
    /\ calc.out.totals.nonRevenue.value = SumAmounts(calc.in.nonRevenue)
    /\ SumValues(calc.out.revenue.years) <= calc.out.totals.revenue.value
    /\ SumValues(calc.out.nonRevenue.years) <= calc.out.totals.nonRevenue.value

\* the counts of transactions in the stats of a report
CountFields ==
  {"totalTransactions", "autoRevenue", "agentReviewed", "agentDecisions",
   "unresolved"}

\* C17: when the revenue or the non-revenue total differs from the sum of
\* its year buckets, the difference is a value of the stats of the report,
\* next to the counts of transactions.
C17_DeltaInStats ==
  Done("summary") =>
    LET revenueDifference ==
          calc.out.totals.revenue.value - SumValues(calc.out.revenue.years)
        nonRevenueDifference ==
          calc.out.totals.nonRevenue.value
            - SumValues(calc.out.nonRevenue.years)
        stats == calc.out.stats
        deltas == DOMAIN stats \ CountFields
    IN /\ revenueDifference # 0 =>
            \E field \in deltas : stats[field] = revenueDifference
       /\ nonRevenueDifference # 0 =>
            \E field \in deltas : stats[field] = nonRevenueDifference

\* ---- upsertReport on its own ----
NullableFields ==
  {"report_text", "report_structured", "files_count", "files_data",
   "completed_at", "comment", "openai_response_id", "openai_status"}

\* C18: after two consecutive calls of upsertReport for a session every
\* field that the second call passed as null keeps the value stored by the
\* first call and every other field holds the value of the second call;
\* the same payload once more leaves the row as it is.
C18_UpsertCoalesce ==
  Done("upsert") =>
    LET passed == InsertedRow(calc.in.second)
    IN /\ calc.out.second.status = passed.status
       /\ \A field \in NullableFields :
            calc.out.second[field]
              = IF passed[field] = NULL THEN calc.out.first[field]
                ELSE passed[field]
       /\ upsertReport(calc.out.second, calc.in.second) = calc.out.second

\* C19: once DELETE /api/reports/:sessionId has answered 204 for a session,
\* reports, messages and files hold no row of the session as long as no
\* POST /api/analysis is accepted for it, also when a background task of
\* the session was still running at the deletion.
C19_DeleteCascades ==
  \A s \in Sessions :
    deleted[s] =>
      /\ reports[s] = NoRow
      /\ messages[s] = <<>>
      /\ ~files[s]

\* the values of message_order in the rows of a session
OrdersOf(s) == {messages[s][i].message_order : i \in 1..Len(messages[s])}

\* C20: the message_order values of the rows of every session are
\* pairwise distinct and are the numbers 1..N, N the number of the rows,
\* whatever the order of the submissions, the saving of the new items of
\* a classifier run and the appends of the reconciliation.
C20_DenseOrders ==
  \A s \in Sessions :
    /\ \A i, j \in 1..Len(messages[s]) :
         i # j => messages[s][i].message_order # messages[s][j].message_order
    /\ OrdersOf(s) = 1..Len(messages[s])

\* C21: in every stored row of reports completed_at is not null exactly
\* when the status is completed or failed, whichever of the handler, the
\* background task and the reconciliation wrote the row last.
C21_CompletedAtIffTerminal ==
  \A s \in Sessions :
    reports[s] # NoRow =>
      (reports[s].completed_at # NULL
         <=> reports[s].status \in {"completed", "failed"})

\* a generating row written over the row of a completed report: the
\* structured report of the earlier run is kept, its completed_at is not
C21_Witness ==
  \E s \in Sessions :
    /\ reports[s] # NoRow
    /\ reports[s].status = "generating"
    /\ reports[s].report_structured # NULL
    /\ reports[s].completed_at = NULL

\* the error messages that the handler, the background task and the
\* reconciliation record with the status failed
FailureMessages ==
  {Str("conversion failed"), Str("database error"), Str("classifier error"),
   Str("provider status")}

\* C22: whenever GET /api/reports/:sessionId answers a session with the
\* status failed, the report_text of the answer is the error message that
\* was recorded for the failure, never the rendering of a report that was
\* generated before.
C22_FailedText ==
  \A o \in Observers, s \in Sessions :
    seen[o][s].status = "failed" =>
      seen[o][s].report_text \in FailureMessages

\* C23: the step in which a background task ends after the upsert of its
\* completed report never leaves the session in the status generating: when
\* the write fails the session ends in the status failed.
C23_FinalWriteFailureIsFatal ==
  [][\A r \in Slots :
       LET s == slot[r].sessionId
       IN (/\ slot[r].tpc = "final_upsert"
           /\ slot'[r].tpc = "done"
           /\ reports[s] # NoRow
           /\ reports[s].status = "generating")
          => reports'[s].status \in {"completed", "failed"}]_vars

\* C24: a POST /api/analysis without files that arrives while no handler
\* and no background task of its session is in progress is answered 400,
\* writes no row of reports, saves no message and starts no background
\* task.
C24_NoFilesRejected ==
  [][\A r \in Slots :
       (/\ Arrives(r)
        /\ slot'[r].filesCount = 0
        /\ NothingInProgress(slot'[r].sessionId))
       => /\ slot'[r].response = 400
          /\ slot'[r].tpc = "none"
          /\ reports' = reports
          /\ messages' = messages]_vars

TooLarge(sizes) == \E i \in 1..Len(sizes) : sizes[i] > 50 * 1024 * 1024

\* C25: a POST /api/analysis with a file of more than 50 MiB is answered
\* with the error code FILE_TOO_LARGE, and neither a dedup claim nor a row
\* of reports is created for it.
C25_TooLargeRejected ==
  (Done("upload") /\ TooLarge(calc.in)) =>
    /\ calc.out.code = Str("FILE_TOO_LARGE")
    /\ activeAnalysisSessions = {}
    /\ \A s \in Sessions : reports[s] = NoRow

\* the text matches the entry when every "*" of the entry stands for some
\* substring, the empty one included
RECURSIVE MatchesWildcard(_, _)
MatchesWildcard(entry, text) ==
  IF entry = <<>> THEN text = <<>>
  ELSE IF Head(entry) = "*"
       THEN \/ MatchesWildcard(Tail(entry), text)
            \/ text # <<>> /\ MatchesWildcard(entry, Tail(text))
       ELSE text # <<>> /\ Head(text) = Head(entry) /\ MatchesWildcard(Tail(entry), Tail(text))

\* C26: the origin check lets an origin through if and only if the origin
\* equals an entry of the allow-list or matches an entry with a "*", where
\* "*" stands for an arbitrary substring; https://foo.github.io is let
\* through by https://*.github.io.
C26_WildcardOrigins ==
  (Done("cors") /\ calc.in.origin # <<>>) =>
    LET list == allowedOrigins(calc.in.frontendUrl)
    IN calc.out <=> \E i \in 1..Len(list) :
         \/ calc.in.origin = list[i]
         \/ includes(list[i], "*") /\ MatchesWildcard(list[i], calc.in.origin)

\* the same number: the same digits, and the same sign unless both are zero
SameNumber(a, b) ==
  /\ a.integer = b.integer
  /\ a.fraction = b.fraction
  /\ (a.negative = b.negative \/ (a.integer = <<"0">> /\ a.fraction = <<"0", "0", "0">>))

\* C27: for every amount with at most two fraction digits,
\* parseAmountNumber(formatCurrencyKzt(amount)) is the amount.
C27_ParseInvertsFormat ==
  (Done("amount") /\ calc.in.amount.fraction[3] = "0") =>
    SameNumber(calc.out.parsed, calc.in.amount)

\* -1 001 900,95 has been rendered with two separators of groups and a
\* comma, and parsed
C27_Witness ==
  /\ Done("amount")
  /\ calc.in.amount = Decimal(TRUE, <<"1", "0", "0", "1", "9", "0", "0">>, <<"9", "5", "0">>)
  /\ calc.out.formatted = <<"-", "1", "nbsp", "0", "0", "1", "nbsp", "9", "0", "0", ",", "9", "5", " ", "K", "Z", "T">>

\* the row of session s is generating, has no response id, and no handler
\* or task of this process works for s
LeftGenerating(s) ==
  /\ reports[s] # NoRow
  /\ reports[s].status = "generating"
  /\ reports[s].openai_response_id = NULL
  /\ \A r \in Slots : slot[r].sessionId # s

\* C28: a session that a process exit left in status generating, without a
\* stored openai_response_id, stays generating under every sequence of
\* GET requests: every step that is not the arrival of a submission leaves
\* its row as it is, and every answer given for it says generating.
C28_LostTaskStaysGenerating ==
  [][\A s \in Sessions :
       (LeftGenerating(s) /\ ~(\E r \in Slots : Arrives(r) /\ slot'[r].sessionId = s)) =>
         /\ reports'[s] = reports[s]
         /\ \A o \in Observers :
              seen'[o][s] # seen[o][s] => seen'[o][s].status = "generating"]_vars

\* after an exit of the process the row is generating without a response
\* id, nothing works for the session, and a reader was answered generating
C28_Witness ==
  \E s \in Sessions, o \in Observers :
    /\ LeftGenerating(s)
    /\ activeAnalysisSessions = {}
    /\ conversationHistory[s] = NoArray
    /\ reader[o].pc = "idle"
    /\ seen[o][s].status = "generating"

\* this step is a DELETE /api/reports/s that is answered 204
Deletes(s) == reports[s] # NoRow /\ reports'[s] = NoRow

\* C29: a successful DELETE /api/reports/:sessionId removes the session id
\* from the set that POST /api/analysis consults for in-progress analyses.
C29_DeleteReleasesClaim ==
  [][\A s \in Sessions : Deletes(s) => s \notin activeAnalysisSessions']_vars

\* the handler in slot r has handed its PDFs to the extractor and awaits
\* the transactions
Extracting(r) == slot[r].hpc = "ingest"

\* C30: for every submission that passes validation the initial row with
\* status generating is persisted before any PDF is handed to the
\* extractor: while the extraction runs, the row of the session exists and
\* its status is generating.
C30_GeneratingBeforeExtraction ==
  \A r \in Slots :
    Extracting(r) =>
      /\ reports[slot[r].sessionId] # NoRow
      /\ reports[slot[r].sessionId].status = "generating"

\* C31: every invocation of the extractor is bounded: when the extractor,
\* subprocess or HTTP endpoint, never terminates, the call is ended by the
\* timeout of five minutes with an error for the file. The handler, which
\* awaits the call while it holds the dedup claim of the session, is then
\* no longer kept from responding: every call that a handler awaits
\* eventually settles.
C31_ExtractionBounded ==
  (calc.fn = "extract" /\ Extracting("r1")) ~> calc.out.pc = "settled"

\* C32: whenever a call of the subprocess conversion has settled, every
\* temporary PDF file that it wrote has been deleted.
C32_TempFilesDeleted ==
  (calc.fn = "extract" /\ calc.in.transport = "python" /\ calc.out.pc = "settled") =>
    calc.out.temp = {}

\* C33: for a stdout of log lines, then one JSON array or object, which
\* may hold nested arrays and objects, then log lines, the subprocess
\* adapter returns exactly the value of the JSON, in an array when it is an
\* object.
C33_JsonRecovered ==
  Done("stdout") =>
    /\ calc.out.settled = "resolved"
    /\ calc.out.value = Wrapped(calc.in.json)

FinalRow(s) == reports[s] # NoRow /\ reports[s].status \in FINAL_REPORT_STATUSES

\* C34: maybeUpdateReportFromOpenAI on a row whose status is completed or
\* failed sends no request to the provider, writes nothing to the
\* database, appends no message and returns the row as it is, at every
\* call: a reader that is not waiting for the provider starts no retrieval
\* for a session with a final row, and a step that answers a reader for
\* such a session changes no table and answers with the status of the row.
C34_FinalRowUntouched ==
  [][\A o \in Observers, s \in Sessions :
       (FinalRow(s) /\ reader[o].pc = "idle") =>
         /\ ~(reader'[o].pc = "retrieve" /\ reader'[o].sessionId = s)
         /\ seen'[o][s] # seen[o][s] =>
              /\ reports' = reports
              /\ messages' = messages
              /\ seen'[o][s].status = reports[s].status]_vars

\* a reader was answered completed for a row that is completed and has a
\* response id, and waits for nothing
C34_Witness ==
  \E o \in Observers, s \in Sessions :
    /\ FinalRow(s)
    /\ reports[s].openai_response_id # NULL
    /\ reader[o].pc = "idle"
    /\ seen[o][s].status = reports[s].status

\* C35: after a SIGTERM or SIGINT the process eventually exits, even if
\* requests in flight never finish; it exits with 0 only once the HTTP
\* server has closed and the close of the database, if there is one, has
\* returned or thrown, and otherwise it is ended with 1.
C35_ShutdownExits ==
  /\ (calc.fn = "shutdown" /\ calc.out.signals > 0) ~> (calc.out.exit # "none")
  /\ [](calc.fn = "shutdown" /\ calc.out.exit = "0" =>
          calc.out.serverClosed /\ calc.out.db # "closing")

\* the process was ended by the timer while a handler had not responded
C35_Witness ==
  /\ calc.fn = "shutdown"
  /\ calc.out.exit = "1"
  /\ ~calc.out.serverClosed
  /\ InFlight("r1")

\* the status, report_text and completed_at that are stored for a session
StoredOutcome(row) ==
  IF row = NoRow THEN <<"absent", NULL, NULL>>
  ELSE <<row.status, row.report_text, row.completed_at>>

\* this step is the write-back of the reconciliation that o runs for s
WritesBack(o, s) ==
  /\ reader[o].pc = "upsert"
  /\ reader[o].sessionId = s
  /\ reader'[o].pc = "reread"

\* C36: while a background task of a session is running, no GET changes
\* the stored status, report_text or completed_at of the session, and the
\* write-back of a reconciliation that read the row as generating leaves a
\* terminal status and its report text as they are stored.
C36_ReadsLeaveTaskOutcome ==
  [][\A o \in Observers, s \in Sessions :
       WritesBack(o, s) =>
         /\ TasksOf(s) # {} =>
              StoredOutcome(reports'[s]) = StoredOutcome(reports[s])
         /\ (/\ reader[o].reportRow.status = "generating"
             /\ reports[s].status \in FINAL_REPORT_STATUSES) =>
              /\ reports'[s].status = reports[s].status
              /\ reports'[s].report_text = reports[s].report_text]_vars

\* the handler in slot r answered 500 ANALYSIS_FAILED
AnsweredFailed(r) == slot[r].hpc = "done" /\ slot[r].response = 500

\* this step is the final write of the task in slot r
FinalWrite(r) == slot[r].tpc = "final_upsert" /\ slot'[r].tpc = "done"

\* C37: a session whose POST handler answered 500 ANALYSIS_FAILED and stored
\* the status failed has no background task running after that response,
\* and the task of that submission never turns the failed row to completed.
C37_FailedHasNoTask ==
  /\ [](\A r \in Slots :
          (/\ AnsweredFailed(r)
           /\ reports[slot[r].sessionId].status = "failed") => ~TaskRunning(r))
  /\ [][\A r \in Slots :
          (/\ AnsweredFailed(r)
           /\ FinalWrite(r)
           /\ reports[slot[r].sessionId].status = "failed") =>
            reports'[slot[r].sessionId].status # "completed"]_vars

\* C38: within one submission the internal ids attached to the extracted
\* transactions are pairwise distinct, whatever id fields the records of
\* the extractor carry.
C38_DistinctInternalIds ==
  \A r \in Slots :
    LET transactions == slot[r].transactionsWithIds
    IN \A i, j \in DOMAIN transactions :
         i # j => transactions[i].ikap_tx_id # transactions[j].ikap_tx_id

\* the task in slot r has built its report
HasReport(r) ==
  slot[r].tpc \in {"final_upsert", "done"} /\ slot[r].payload.status = "completed"

\* how many transactions of the final lists of slot r have the source
FromSource(r, source) ==
  LET final == slot[r].finalRevenueTransactions
                 \o slot[r].finalNonRevenueTransactions
  IN Cardinality({i \in DOMAIN final :
                    final[i].ikap_classification_source = source})

\* C39: in every finalized report autoRevenue + agentReviewed is
\* totalTransactions, agentDecisions is the number of transactions whose
\* source is agent, and unresolved is the number of transactions whose
\* source is agent_missing, whatever the classifier answered.
C39_StatsCountSources ==
  \A r \in Slots :
    HasReport(r) =>
      /\ StatsOf(r).autoRevenue + StatsOf(r).agentReviewed
           = StatsOf(r).totalTransactions
      /\ StatsOf(r).agentDecisions = FromSource(r, "agent")
      /\ StatsOf(r).unresolved = FromSource(r, "agent_missing")

====
